---------------------------- MODULE Spec2Model ----------------------------
(***************************************************************************)
(* A state-machine model of the liberte relay/SFU server and overlay node. *)
(*                                                                         *)
(* Each subsystem is modelled by its own group of variables and actions    *)
(* and has its own specification:                                          *)
(*   SpecSfu      crates/liberte-server/src/sfu.rs                         *)
(*   SpecPremium  crates/liberte-server/src/premium.rs                     *)
(*   SpecRate     crates/liberte-server/src/rate_limit.rs                  *)
(*   SpecOverlay  crates/liberte-net/src/swarm.rs, peers.rs                *)
(*   SpecAdmin    crates/liberte-server/src/api.rs (admin endpoints)       *)
(*   SpecBlob     crates/liberte-server/src/blob_store.rs                  *)
(*   SpecBackup   crates/liberte-server/src/api.rs (backup endpoints)      *)
(*   SpecRateIps  crates/liberte-server/src/rate_limit.rs (two addresses)  *)
(*   SpecInvite   crates/liberte-shared/src/invite.rs                      *)
(*   SpecBridge   crates/liberte-client/src/swarm_bridge.rs                *)
(*   SpecVoice    crates/liberte-client/src/commands/media.rs              *)
(*   SpecCalls    crates/liberte-client/src/commands/media.rs (start_call  *)
(*                in its two critical sections)                            *)
(*   SpecAudio    crates/liberte-media/src/audio.rs (capture, playback)    *)
(*   SpecSend     crates/liberte-client/src/commands/messaging.rs and      *)
(*                files.rs                                                 *)
(*   SpecStartup  crates/liberte-client/src/swarm_bridge.rs (start-up)     *)
(*   SpecSweep    crates/liberte-server/src/premium.rs, main.rs (sweeper)  *)
(* A specification leaves the variables of the other subsystems at their   *)
(* initial values.                                                         *)
(***************************************************************************)
EXTENDS Integers, Sequences, FiniteSets, TLC

VARIABLES
    \* ---- SFU (sfu.rs) ----
    rooms,          \* SfuManager.rooms: the set of keys of the room map
    participants,   \* SfuRoom.participants, per room id
    senders,        \* keys of SfuRoom.senders, per room id
    inbox,          \* buffer of the mpsc channel behind senders[room][peer]
    received,       \* history: frames the holder of the Receiver has dequeued
    routing,        \* per sender: the route_frame call in flight, or Idle
    nextSeq,        \* history: number of route_frame calls made so far
    lastOp          \* history: the last join_room / leave_room call (SpecSfuRooms)

\* ---- Entitlement verifier (premium.rs) ----
VARIABLES
    pmCache,        \* PremiumVerifier.cache: user key -> CachedStatus, or NoEntry
    pmNow,          \* Utc::now(), in days
    pmCall          \* per HTTP handler: the verify call in flight and its result

\* ---- Admission control (rate_limit.rs) ----
VARIABLES
    rlRate,         \* RateLimiter.rate, tokens per second
    rlCapacity,     \* RateLimiter.capacity, tokens
    rlBuckets,      \* RateLimiter.buckets: IP -> TokenBucket, or NoBucket
    rlClock,        \* Instant::now(), in ticks
    rlBurst         \* history: per IP, the checks made at the current instant

\* ---- Overlay loop (swarm.rs, peers.rs) ----
VARIABLES
    ovCmds,         \* the command queue (cmd_tx -> cmd_rx)
    ovNotifs,       \* the notification queue (notif_tx -> notif_rx)
    ovLoop,         \* where the loop task is: select, send (suspended), terminated
    ovTracker,      \* PeerTracker.peers: peer -> ConnectionInfo, or NoConn
    ovConns,        \* the swarm's established connections: peer -> remote addresses
    ovSubs,         \* the gossipsub topics subscribed to
    ovReplies,      \* the answers received on the GetPeers reply channels
    ovTxOpen,       \* the application still holds the command sender
    ovRxOpen,       \* the application still holds the notification receiver
    ovInputs,       \* the number of commands submitted and swarm events so far
    ovEmitted,      \* history: per peer, the connection notifications enqueued
    ovOutcome       \* history: what the last step of the loop was, when it was
                    \* a Dial, a PublishMessage or a DCUtR event, and how it ended

\* ---- The premium cache as it would be without the sweeper ----
VARIABLES
    swShadow        \* history: the cache with every write and no purge_expired

\* ---- HTTP API (api.rs) ----
VARIABLES
    apAdminToken,   \* ServerConfig.admin_token
    apLast,         \* history: the last request handled and its response
    apBase,         \* BlobStore.base_path
    fsDirs,         \* the file system: the directories that exist
    fsFiles,        \* the file system: the files that exist and their contents
    apNextId,       \* the number of ids Uuid::new_v4 has handed out
    apBlobs         \* history: per id, the bytes stored under it and not deleted

\* ---- Invite tokens (liberte-shared/src/invite.rs) ----
VARIABLES
    ivToken,        \* the InviteToken in the hands of the invited peer
    ivSigned,       \* history: the token as InviteToken::create returned it
    ivNow,          \* Utc::now(), in seconds
    ivLast          \* what the verify call just made returned

\* ---- Client bridge (swarm_bridge.rs, liberte-store) ----
VARIABLES
    brKeys,         \* table channel_keys: channel id -> key_hex, or NoRow
    brMessages,     \* table messages: the rows, in insertion order
    brEvents,       \* the UI events emitted, in order
    brLast          \* history: how the last call went

\* ---- Voice calls (commands/media.rs) ----
VARIABLES
    vcInCall,       \* AppState.is_in_call
    vcIsMuted,      \* AppState.is_muted
    vcCur,          \* the call whose flags AppState.voice_active / voice_muted hold, or 0
    vcCalls,        \* the number of calls started so far
    vcTask,         \* per call: the flags of its AudioEngine and its voice sender task
    vcCapture,      \* per call: the capture queue (capture_tx -> capture_rx)
    vcFrames,       \* the number of frames the capture callback has produced
    vcCmds,         \* the overlay command queue (swarm_cmd_tx)
    vcDone,         \* history: the events of the successful commands, in call order
    vcLast,         \* history: the last step of a voice sender task
    vcChecked,      \* the start_call invocations between their in-call check and
                    \* their state update
    \* Start-up of the overlay in the client (swarm_bridge.rs)
    suPc,           \* where start_swarm_and_bridge is
    suLeft,         \* the stored channels subscribe_all_channels has yet to send
    \* Voice playback of the client (swarm_bridge.rs, audio.rs)
    vcPlayback,     \* per call: the playback queue (voice_playback_tx -> frame_rx)
    vcHeard,        \* the number of voice frames that have come in from peers
    pbLast,         \* history: the last step on a playback queue
    \* Messaging and file commands of the client (commands/messaging.rs, files.rs)
    smIdentity,     \* whether an identity is loaded (AppState::identity)
    smSwarm,        \* whether the overlay is started (AppState::swarm_cmd_tx)
    smCmds,         \* the overlay command queue the commands send to
    smBlobs,        \* the rows of table blobs
    smIds,          \* the number of ids Uuid::new_v4 has handed out
    smLast          \* history: the last command and its result

sfuVars == <<rooms, participants, senders, inbox, received, routing, nextSeq, lastOp>>
pmVars == <<pmCache, pmNow, pmCall>>
swVars == <<swShadow>>

rlVars == <<rlRate, rlCapacity, rlBuckets, rlClock, rlBurst>>

ovVars == <<ovCmds, ovNotifs, ovLoop, ovTracker, ovConns, ovSubs, ovReplies,
            ovTxOpen, ovRxOpen, ovInputs, ovEmitted, ovOutcome>>

bsVars == <<apBase, fsDirs, fsFiles, apNextId, apBlobs>>
apVars == <<apAdminToken, apLast, bsVars>>

ivVars == <<ivToken, ivSigned, ivNow, ivLast>>
brVars == <<brKeys, brMessages, brEvents, brLast>>
vcVars == <<vcInCall, vcIsMuted, vcCur, vcCalls, vcTask, vcCapture, vcFrames,
            vcCmds, vcDone, vcLast>>
smVars == <<smIdentity, smSwarm, smCmds, smBlobs, smIds, smLast>>
ccVars == <<vcChecked>>
suVars == <<suPc, suLeft>>
pbVars == <<vcPlayback, vcHeard, pbLast>>
clVars == <<ivVars, brVars, vcVars, ccVars, suVars, pbVars, smVars>>

vars == <<sfuVars, pmVars, swVars, rlVars, ovVars, apVars, clVars>>

\* A step of one subsystem leaves the other subsystems alone.
SfuAlone == UNCHANGED <<swVars, pmVars, rlVars, ovVars, apVars, clVars>>
PmAlone == UNCHANGED <<swVars, sfuVars, rlVars, ovVars, apVars, clVars>>
RlAlone == UNCHANGED <<swVars, sfuVars, pmVars, ovVars, apVars, clVars>>
OvAlone == UNCHANGED <<swVars, sfuVars, pmVars, rlVars, apVars, clVars>>
AdAlone == UNCHANGED <<swVars, sfuVars, rlVars, ovVars, bsVars, clVars>>
BsAlone == UNCHANGED <<swVars, sfuVars, pmVars, rlVars, ovVars, clVars>>
SrvAlone == UNCHANGED <<swVars, sfuVars, pmVars, rlVars, ovVars, apVars>>
IvAlone == SrvAlone /\ UNCHANGED <<suVars, brVars, vcVars, ccVars, pbVars, smVars>>
BrAlone == SrvAlone /\ UNCHANGED <<suVars, ivVars, vcVars, ccVars, pbVars, smVars>>
VcAlone == SrvAlone /\ UNCHANGED <<suVars, ivVars, brVars, ccVars, pbVars, smVars>>
CcAlone == SrvAlone /\ UNCHANGED <<suVars, ivVars, brVars, pbVars, smVars>>
PbAlone == SrvAlone /\ UNCHANGED <<suVars, ivVars, brVars, vcVars, ccVars, smVars>>
SmAlone == SrvAlone /\ UNCHANGED <<suVars, ivVars, vcVars, ccVars, pbVars>>

-----------------------------------------------------------------------------
(* Bounds of the model *)

\* The peer ids in use.
Peers == {"pA", "pB", "pC", "pD"}
\* The room ids in use.
RoomIds == {"r1", "r2"}
\* Capacity of a participant's inbound channel.  The code uses
\* mpsc::channel(256) (sfu.rs:63); the model keeps the same try_send
\* semantics over a smaller buffer.
QueueCap == 2
\* Total number of route_frame calls in a behaviour.
MaxFrames == 3
\* The peers that publish frames; every peer receives.
Senders == {"pA", "pB"}
\* While frames are routed (SpecSfu), frames are published in room r1, which
\* pA, pB and pC join and leave; pD joins and leaves room r2.
Uses == [p \in Peers |-> IF p = "pD" THEN {"r2"} ELSE {"r1"}]
Published == {"r1"}
\* The room ids create_room hands out, and the peers that read their queue
\* (a peer outside Readers holds its Receiver and never dequeues).
Created == {"r1"}
Readers == {"pB", "pC", "pD"}

\* The last day the clock of the entitlement verifier reaches.
MaxDay == 3
\* User keys, the keys that sign tokens, and the expiry days tokens carry.
Users == {"u1", "u2"}
Keys == {"issuer", "other"}
Expiries == {1, 3}
\* The HTTP handlers that run PremiumVerifier::verify.
Handlers == {"h1"}

\* Token amounts are kept in units of 1/Scale token.
Scale == 2
\* The ticks the clock of the admission control makes beyond one second.
Slack == 1
\* Client addresses, and the ones that send requests in SpecRate.
Ips == {"ip1", "ip2"}
ActiveIps == {"ip1"}

\* CmdCap and NotifCap stand for the 256 slots of the two queues of the
\* overlay loop; MaxInputs bounds the commands and swarm events of a run.
CmdCap == 2
NotifCap == 2
MaxInputs == 3
\* Remote peers, the addresses they connect from, topics, payloads and the
\* callers of GetPeers.
OvPeers == {"q1", "q2"}
Addrs == {<<"ip4", "udp", "quic-v1">>,
          <<"ip4", "udp", "quic-v1", "p2p-circuit">>}
Topics == {"t1"}
Payloads == {"m1", "big"}
Callers == {"g1"}
\* The sources gossip messages name, the relays that accept reservations and
\* what swarm.external_addresses().next() yields (Multiaddr::empty() if none).
Sources == {"none", "q1"}
RelayPeers == {"q2"}
ExternalAddrs == {<<>>, <<"ip4", "udp", "quic-v1">>}

\* The values of the ADMIN_TOKEN environment variable (None: not set), the
\* Authorization headers requests carry (None: no header) and the user keys
\* admin requests name: the keys of the two users and a key one digit short.
AdminEnvs == {[some |-> FALSE], [some |-> TRUE, value |-> <<>>],
              [some |-> TRUE, value |-> <<"k", "1">>]}
AdminHeaders ==
    {[some |-> FALSE],
     [some |-> TRUE, value |-> <<"B", "e", "a", "r", "e", "r", " ", "k", "1">>],
     [some |-> TRUE, value |-> <<"k", "1">>],
     [some |-> TRUE, value |-> <<"B", "e", "a", "r", "e", "r", " ", "k", "2">>],
     [some |-> TRUE, value |-> <<"B", "e", "a", "r", "e", "r", " ", "k">>],
     [some |-> TRUE, value |-> <<"B", "e", "a", "r", "e", "r", " ">>],
     [some |-> TRUE, value |-> <<"B", "a", "s", "i", "c", " ", "k", "1">>]}
UserKeyHex == [u \in Users |-> [i \in 1..64 |-> IF u = "u1" THEN "1" ELSE "2"]]
AdminKeys == {UserKeyHex[u] : u \in Users} \cup {[i \in 1..63 |-> "1"]}

\* The blob ids Uuid::new_v4 hands out in a run, and the size limit of a
\* blob, which stands for the 50 MiB of max_blob_size.
MaxBlobs == 2
MaxBlobSize == 2
\* The blob directories configured (the default ./blobs and an absolute one).
DefaultBase == <<".", "/", "b", "l", "o", "b", "s">>
Bases == {DefaultBase, <<"/", "s", "r", "v", "/", "b", "l", "o", "b", "s">>}
\* The byte strings stored: empty, two within the limit and one beyond it.
BlobData == {<<>>, <<1>>, <<1, 2>>, [i \in 1..(MaxBlobSize + 1) |-> 3]}
\* The user keys backup requests name: a good one, the same with a trailing
\* blank or a leading newline, one of 63 digits, one with a letter that is no
\* digit, and ../etc/passwd; and the backup contents.
BackupKeys ==
    {[i \in 1..64 |-> "1"],
     [i \in 1..65 |-> IF i = 65 THEN " " ELSE "a"],
     [i \in 1..65 |-> IF i = 1 THEN "\n" ELSE "B"],
     [i \in 1..63 |-> "1"],
     [i \in 1..64 |-> IF i = 64 THEN "g" ELSE "1"],
     <<".", ".", "/", "e", "t", "c", "/", "p", "a", "s", "s", "w", "d">>}
BackupData == {<<7>>, <<8>>}
\* The (subdir, filename) pairs safe_subpath is called with.
SubpathCalls ==
    {<<<<"b", "k">>, <<"f", ".", "e">>>>,
     <<<<"b", "k">>, <<".", ".", "/", "x">>>>,
     <<<<"b", "k">>, <<"a", "\\", "b">>>>,
     <<<<"b", "k">>, <<"a", ".", ".", "b">>>>,
     <<<<"b", "k">>, <<"/", "e", "t", "c">>>>,
     <<<<".", ".">>, <<"f">>>>,
     <<<<"a", "/", "b">>, <<"f">>>>,
     <<<<"a", "\\", "b">>, <<"f">>>>,
     <<<<>>, <<".">>>>}


Idle == [kind |-> "idle"]

-----------------------------------------------------------------------------
(* SFU: sfu.rs *)

\* EncryptedFrame { sender, payload }.  Senders number their payloads, so
\* that two frames are never equal.
EncryptedFrame(sender, payload) == [sender |-> sender, payload |-> payload]

\* tokio mpsc try_send on a bounded channel: enqueue at the tail when there
\* is room, otherwise Err(Full) and the buffer is left as it is.
\* (Variants, as if try_send enqueued at the head, or evicted the oldest frame
\* of a full buffer.)
TrySendFront(q, f) == IF Len(q) < QueueCap THEN <<f>> \o q ELSE q
TrySendEvict(q, f) == IF Len(q) < QueueCap THEN Append(q, f) ELSE Append(Tail(q), f)
\* The channel as tokio implements it.
TrySend(q, f) == IF Len(q) < QueueCap THEN Append(q, f) ELSE q

\* "Do not echo back to the sender."
\* (Variant: as if no peer were recognised as the sender.)
EchoToAll(peer, sender) == FALSE
\* The test of the code.
IsSender(peer, sender) == peer = sender

\* The RwLock around the room map: route_frame holds the read lock from its
\* first line to its return, join/leave/create take the write lock.
ReadLocked == \E s \in Peers : routing[s] # Idle

NoOp == [op |-> "none"]

SfuInit ==
    /\ rooms = {}
    /\ participants = [r \in RoomIds |-> {}]
    /\ senders = [r \in RoomIds |-> {}]
    /\ inbox = [r \in RoomIds |-> [p \in Peers |-> <<>>]]
    /\ received = [r \in RoomIds |-> [p \in Peers |-> <<>>]]
    /\ routing = [s \in Peers |-> Idle]
    /\ nextSeq = 0
    /\ lastOp = NoOp

\* SfuManager::create_room: a room with a fresh id and no participant.
CreateRoom(r) ==
    /\ ~ReadLocked
    /\ r \notin rooms
    /\ rooms' = rooms \cup {r}
    /\ participants' = [participants EXCEPT ![r] = {}]
    /\ senders' = [senders EXCEPT ![r] = {}]
    /\ UNCHANGED <<inbox, received, routing, nextSeq>>

\* SfuManager::join_room, with SfuRoom::join: the room is created when it is
\* absent; a new channel replaces the one the peer may have had.
JoinRoom(r, p) ==
    /\ ~ReadLocked
    /\ rooms' = rooms \cup {r}
    /\ participants' = [participants EXCEPT ![r] = @ \cup {p}]
    /\ senders' = [senders EXCEPT ![r] = @ \cup {p}]
    /\ inbox' = [inbox EXCEPT ![r][p] = <<>>]
    /\ received' = [received EXCEPT ![r][p] = <<>>]
    /\ UNCHANGED <<routing, nextSeq>>

\* SfuManager::leave_room, with SfuRoom::leave.  The peer's Sender is
\* dropped and the leaving participant drops its Receiver with what it holds.
\* (Variant LeaveRoomKeep: as if an emptied room were kept.)
LeaveRoomKeep(r, p) ==
    /\ ~ReadLocked
    /\ IF r \in rooms
         THEN /\ participants' = [participants EXCEPT ![r] = @ \ {p}]
              /\ senders' = [senders EXCEPT ![r] = @ \ {p}]
         ELSE UNCHANGED <<participants, senders>>
    /\ inbox' = [inbox EXCEPT ![r][p] = <<>>]
    /\ received' = [received EXCEPT ![r][p] = <<>>]
    /\ UNCHANGED <<rooms, routing, nextSeq>>
LeaveRoom(r, p) ==
    /\ ~ReadLocked
    /\ IF r \in rooms
         THEN /\ participants' = [participants EXCEPT ![r] = @ \ {p}]
              /\ senders' = [senders EXCEPT ![r] = @ \ {p}]
              /\ rooms' = IF participants[r] \ {p} = {} THEN rooms \ {r} ELSE rooms
         ELSE UNCHANGED <<rooms, participants, senders>>
    /\ inbox' = [inbox EXCEPT ![r][p] = <<>>]
    /\ received' = [received EXCEPT ![r][p] = <<>>]
    /\ UNCHANGED <<routing, nextSeq>>

\* SfuManager::route_frame, entry: take the read lock and look the room up.
\* A frame for a room that does not exist is only logged.  A sender makes
\* its calls one after the other.
RouteBegin(r, s) ==
    /\ routing[s] = Idle
    /\ nextSeq < MaxFrames
    /\ nextSeq' = nextSeq + 1
    /\ routing' = [routing EXCEPT ![s] =
           [kind |-> "routing", room |-> r,
            frame |-> EncryptedFrame(s, nextSeq + 1),
            todo |-> IF r \in rooms THEN senders[r] ELSE {},
            full |-> {}]]
    /\ UNCHANGED <<rooms, participants, senders, inbox, received, lastOp>>

\* SfuRoom::route_frame, one iteration of `for (peer_id, tx) in &self.senders`
\* (a HashMap: any order).  full records the peers of the "Dropping frame for
\* slow participant" branch.
RouteVisit(s, p) ==
    /\ routing[s] # Idle
    /\ p \in routing[s].todo
    /\ LET call == routing[s]
           q == inbox[call.room][p]
       IN  IF IsSender(p, call.frame.sender)
             THEN /\ routing' = [routing EXCEPT ![s].todo = @ \ {p}]
                  /\ UNCHANGED inbox
             ELSE /\ inbox' = [inbox EXCEPT ![call.room][p] = TrySend(q, call.frame)]
                  /\ routing' = [routing EXCEPT
                         ![s].todo = @ \ {p},
                         ![s].full = IF Len(q) < QueueCap THEN @ ELSE @ \cup {p}]
    /\ UNCHANGED <<rooms, participants, senders, received, nextSeq, lastOp>>

\* route_frame returns: the read lock is released.
RouteReturn(s) ==
    /\ routing[s] # Idle
    /\ routing[s].todo = {}
    /\ routing' = [routing EXCEPT ![s] = Idle]
    /\ UNCHANGED <<rooms, participants, senders, inbox, received, nextSeq, lastOp>>

\* The holder of the Receiver returned by join polls it (rx.recv / try_recv).
Recv(r, p) ==
    /\ inbox[r][p] # <<>>
    /\ received' = [received EXCEPT ![r][p] = Append(@, Head(inbox[r][p]))]
    /\ inbox' = [inbox EXCEPT ![r][p] = Tail(@)]
    /\ UNCHANGED <<rooms, participants, senders, routing, nextSeq, lastOp>>

\* SfuManager::list_rooms
ListRooms == rooms

SfuNext ==
    \/ \E r \in Created : CreateRoom(r) /\ UNCHANGED lastOp /\ SfuAlone
    \/ \E p \in Peers : \E r \in Uses[p] : JoinRoom(r, p) /\ UNCHANGED lastOp /\ SfuAlone
    \/ \E r \in RoomIds, p \in Peers : LeaveRoom(r, p) /\ UNCHANGED lastOp /\ SfuAlone
    \/ \E r \in Published, s \in Senders : RouteBegin(r, s) /\ SfuAlone
    \/ \E s \in Senders, p \in Peers : RouteVisit(s, p) /\ SfuAlone
    \/ \E s \in Senders : RouteReturn(s) /\ SfuAlone
    \/ \E r \in RoomIds, p \in Readers : Recv(r, p) /\ SfuAlone

\* Sequences of join_room and leave_room calls alone, by any peer on any
\* room; lastOp remembers the call and what it found.
SfuRoomsNext ==
    \/ \E r \in RoomIds, p \in Peers :
          /\ JoinRoom(r, p)
          /\ lastOp' = [op |-> "join", room |-> r, peer |-> p,
                        absent |-> r \notin rooms, last |-> FALSE]
          /\ SfuAlone
    \/ \E r \in RoomIds, p \in Peers :
          /\ LeaveRoom(r, p)
          /\ lastOp' = [op |-> "leave", room |-> r, peer |-> p,
                        absent |-> r \notin rooms,
                        last |-> r \in rooms /\ participants[r] = {p}]
          /\ SfuAlone

-----------------------------------------------------------------------------
(* Entitlement verifier: premium.rs, liberte-shared/src/premium.rs *)

NoEntry == [kind |-> "none"]
\* Duration::days(36500) of admin_grant.
GrantDays == 36500
\* PremiumVerifier.server_pubkey, the configured issuer key.
ServerPubkey == "issuer"

\* valid_until.to_rfc3339(): the text of the date, here its decimal digits.
RECURSIVE ToRfc3339(_)
ToRfc3339(t) == IF t < 10 THEN <<t>> ELSE Append(ToRfc3339(t \div 10), t % 10)

\* The signed payload: user_pubkey || valid_until as RFC 3339 bytes.
Payload(user, until) == <<user>> \o ToRfc3339(until)

\* An Ed25519 signature is the pair of the key that made it and the bytes it
\* was made over; Malformed is a byte string Signature::from_slice rejects.
Malformed == [kind |-> "malformed"]
Sign(key, payload) == [kind |-> "sig", key |-> key, payload |-> payload]
VerifySig(key, payload, sig) ==
    sig # Malformed /\ sig.key = key /\ sig.payload = payload

Signatures ==
    {Sign(k, Payload(u, t)) : k \in Keys, u \in Users, t \in Expiries} \cup {Malformed}

\* PremiumToken { user_pubkey, valid_until, signature }: the tokens presented.
Tokens == [user_pubkey : Users, valid_until : Expiries, signature : Signatures]

\* create_premium_token
CreatePremiumToken(user, until, key) ==
    [user_pubkey |-> user, valid_until |-> until,
     signature |-> Sign(key, Payload(user, until))]

\* check_premium_status_with_key, evaluated at time now.
CheckPremiumStatusWithKey(token, key, now) ==
    IF now > token.valid_until
      THEN FALSE
      ELSE VerifySig(key, Payload(token.user_pubkey, token.valid_until),
                     token.signature)

\* CachedStatus::is_fresh, evaluated at time now.
IsFresh(entry, now) == entry.valid /\ now < entry.valid_until

CachedStatus(valid, until, at) ==
    [kind |-> "entry", valid |-> valid, valid_until |-> until, verified_at |-> at]

PmIdle == [pc |-> "idle"]

PmInit ==
    /\ pmCache = [u \in Users |-> NoEntry]
    /\ pmNow = 0
    /\ pmCall = [h \in Handlers |-> PmIdle]

\* PremiumVerifier::verify, step 1: look the user up in the cache under the
\* read lock; a fresh entry answers true at once.
VerifyCheckCache(h, token) ==
    /\ pmCall[h].pc \in {"idle", "done"}
    /\ LET entry == pmCache[token.user_pubkey]
           hit == entry # NoEntry /\ IsFresh(entry, pmNow)
       IN  pmCall' = [pmCall EXCEPT ![h] =
               IF hit
                 THEN [pc |-> "done", token |-> token, at |-> pmNow, result |-> TRUE]
                 ELSE [pc |-> "crypto", token |-> token, at |-> pmNow]]
    /\ UNCHANGED <<pmCache, pmNow>>

\* verify, step 2: the full cryptographic verification, outside any lock.
VerifyCrypto(h) ==
    /\ pmCall[h].pc = "crypto"
    /\ pmCall' = [pmCall EXCEPT ![h] =
           [pc |-> "store", token |-> pmCall[h].token, at |-> pmCall[h].at,
            valid |-> CheckPremiumStatusWithKey(pmCall[h].token, ServerPubkey, pmNow)]]
    /\ UNCHANGED <<pmCache, pmNow>>

\* verify, step 3: store the outcome in the cache under the write lock and
\* return it.
VerifyStore(h) ==
    /\ pmCall[h].pc = "store"
    /\ LET call == pmCall[h] IN
       /\ pmCache' = [pmCache EXCEPT ![call.token.user_pubkey] =
              CachedStatus(call.valid, call.token.valid_until, pmNow)]
       /\ pmCall' = [pmCall EXCEPT ![h] =
              [pc |-> "done", token |-> call.token, at |-> call.at,
               result |-> call.valid]]
    /\ UNCHANGED pmNow

\* PremiumVerifier::is_premium_cached
IsPremiumCached(user) ==
    IF pmCache[user] = NoEntry THEN FALSE ELSE IsFresh(pmCache[user], pmNow)

\* PremiumVerifier::admin_grant
AdminGrant(user) ==
    /\ pmCache' = [pmCache EXCEPT ![user] =
           CachedStatus(TRUE, pmNow + GrantDays, pmNow)]
    /\ UNCHANGED <<pmNow, pmCall>>

\* PremiumVerifier::admin_revoke
\* (Variant: as if the entry were kept and marked invalid.)
AdminRevokeInvalidate(user) ==
    /\ pmCache' = [pmCache EXCEPT ![user] =
           IF @ = NoEntry THEN @ ELSE CachedStatus(FALSE, @.valid_until, pmNow)]
    /\ UNCHANGED <<pmNow, pmCall>>
AdminRevoke(user) ==
    /\ pmCache' = [pmCache EXCEPT ![user] = NoEntry]
    /\ UNCHANGED <<pmNow, pmCall>>

\* (Variant: a sweeper that empties the whole cache.)
PurgeEverything ==
    /\ pmCache' = [u \in Users |-> NoEntry]
    /\ UNCHANGED <<pmNow, pmCall>>

\* PremiumVerifier::purge_expired, run by the sweeper task of main.rs.
PurgeExpired ==
    /\ pmCache' = [u \in Users |->
           IF pmCache[u] # NoEntry /\ IsFresh(pmCache[u], pmNow)
             THEN pmCache[u] ELSE NoEntry]
    /\ UNCHANGED <<pmNow, pmCall>>

\* A day passes.
PmTick ==
    /\ pmNow < MaxDay
    /\ pmNow' = pmNow + 1
    /\ UNCHANGED <<pmCache, pmCall>>

SweepInit == swShadow = [u \in Users |-> NoEntry]

\* The verifier with its sweeper, and beside it the cache that gets the same
\* writes and is never swept.
Unswept(user) == swShadow' = [swShadow EXCEPT ![user] = pmCache'[user]]
\* The tokens presented: the issuer's, and ones with a malformed signature.
SweepTokens ==
    {CreatePremiumToken(u, t, ServerPubkey) : u \in Users, t \in Expiries}
        \cup {[user_pubkey |-> u, valid_until |-> 3, signature |-> Malformed] : u \in Users}
PmOnly == UNCHANGED <<sfuVars, rlVars, ovVars, apVars, clVars>>
SwNext ==
    \/ \E h \in Handlers, token \in SweepTokens :
           VerifyCheckCache(h, token) /\ UNCHANGED swShadow /\ PmOnly
    \/ \E h \in Handlers : VerifyCrypto(h) /\ UNCHANGED swShadow /\ PmOnly
    \/ \E h \in Handlers :
           VerifyStore(h) /\ Unswept(pmCall[h].token.user_pubkey) /\ PmOnly
    \/ \E u \in Users : AdminGrant(u) /\ Unswept(u) /\ PmOnly
    \/ \E u \in Users : AdminRevoke(u) /\ Unswept(u) /\ PmOnly
    \/ PurgeExpired /\ UNCHANGED swShadow /\ PmOnly
    \/ PmTick /\ UNCHANGED swShadow /\ PmOnly

PmNext ==
    \/ \E h \in Handlers, token \in Tokens : VerifyCheckCache(h, token) /\ PmAlone
    \/ \E h \in Handlers : VerifyCrypto(h) /\ PmAlone
    \/ \E h \in Handlers : VerifyStore(h) /\ PmAlone
    \/ \E u \in Users : AdminGrant(u) /\ PmAlone
    \/ \E u \in Users : AdminRevoke(u) /\ PmAlone
    \/ PurgeExpired /\ PmAlone
    \/ PmTick /\ PmAlone



\* C2: a verify call made with a token whose valid_until is earlier than the
\* time of the call returns false, whatever the cache holds.
C2_ExpiredTokenIsRefused ==
    \A h \in Handlers :
        (pmCall[h].pc = "done" /\ pmCall[h].token.valid_until < pmCall[h].at)
            => pmCall[h].result = FALSE

\* C3: a verify call made with a token whose signature is not a signature by
\* the configured issuer key over user_verifying_key || valid_until returns
\* false, whatever the cache holds.
C3_BadSignatureIsRefused ==
    \A h \in Handlers :
        (/\ pmCall[h].pc = "done"
         /\ ~VerifySig(ServerPubkey,
                       Payload(pmCall[h].token.user_pubkey, pmCall[h].token.valid_until),
                       pmCall[h].token.signature))
            => pmCall[h].result = FALSE

-----------------------------------------------------------------------------
(* Admission control: rate_limit.rs, and its use in main.rs *)

\* RateLimiter::default(): new(10.0, 30.0).
DefaultRate == 10
DefaultBurst == 30
\* The burst of the limiter built by test_rate_limiter_allows_burst.
TestBurst == 5
\* purge_stale(600.0), called by the sweeper of main.rs.
PurgeIdleSecs == 600

\* The constructor arguments the limiter is built with.
DefaultConfig == [rate |-> DefaultRate, capacity |-> DefaultBurst]
Configs == {DefaultConfig, [rate |-> DefaultRate, capacity |-> TestBurst]}

\* One tick is the time in which DefaultRate tokens per second yield one unit.
TicksPerSec == DefaultRate * Scale
MaxTicks == TicksPerSec + Slack
LongIdle == PurgeIdleSecs * TicksPerSec

Min(a, b) == IF a < b THEN a ELSE b

NoBucket == [kind |-> "none"]
NoBurst == [n |-> 0, emptied |-> FALSE]

\* TokenBucket { tokens, last_refill }
TokenBucket(tokens, last_refill) ==
    [kind |-> "bucket", tokens |-> tokens, last_refill |-> last_refill]

\* (Variant: a new bucket that starts empty.)
NewBucketEmpty(capacity, now) == TokenBucket(0, now)
\* TokenBucket::new
NewBucket(capacity, now) == TokenBucket(capacity * Scale, now)

\* elapsed * rate, in units.
Refill(elapsed, rate) == (elapsed * rate * Scale) \div TicksPerSec

\* TokenBucket::try_consume at time now: the bucket it leaves and its answer.
\* (Variants: as if the refill were not capped, or a whole token had to remain.)
TryConsumeUncapped(bucket, rate, capacity, now) ==
    LET tokens == bucket.tokens + Refill(now - bucket.last_refill, rate)
    IN  IF tokens >= Scale
          THEN [bucket |-> TokenBucket(tokens - Scale, now), admitted |-> TRUE]
          ELSE [bucket |-> TokenBucket(tokens, now), admitted |-> FALSE]
TryConsumeStrict(bucket, rate, capacity, now) ==
    LET tokens == Min(bucket.tokens + Refill(now - bucket.last_refill, rate),
                      capacity * Scale)
    IN  IF tokens > Scale
          THEN [bucket |-> TokenBucket(tokens - Scale, now), admitted |-> TRUE]
          ELSE [bucket |-> TokenBucket(tokens, now), admitted |-> FALSE]
TryConsume(bucket, rate, capacity, now) ==
    LET tokens == Min(bucket.tokens + Refill(now - bucket.last_refill, rate),
                      capacity * Scale)
    IN  IF tokens >= Scale
          THEN [bucket |-> TokenBucket(tokens - Scale, now), admitted |-> TRUE]
          ELSE [bucket |-> TokenBucket(tokens, now), admitted |-> FALSE]

\* RateLimiter::new(rate, capacity)
RlInit(rate, capacity) ==
    /\ rlRate = rate
    /\ rlCapacity = capacity
    /\ rlBuckets = [ip \in Ips |-> NoBucket]
    /\ rlClock = 0
    /\ rlBurst = [ip \in Ips |-> NoBurst]

\* RateLimiter::check(ip).  The history records, for the first check of an
\* instant, whether the bucket was empty before it (emptied) and if so for how
\* long it had been idle, and what the bucket holds once refilled (start);
\* then the number of checks (n) and of admissions (ok) of the instant.
Check(ip) ==
    /\ rlBurst[ip].n < rlCapacity + 2
    /\ LET bucket == IF rlBuckets[ip] = NoBucket
                       THEN NewBucket(rlCapacity, rlClock)
                       ELSE rlBuckets[ip]
           r == TryConsume(bucket, rlRate, rlCapacity, rlClock)
           won == IF r.admitted THEN 1 ELSE 0
       IN  /\ rlBuckets' = [rlBuckets EXCEPT ![ip] = r.bucket]
           /\ rlBurst' = [rlBurst EXCEPT ![ip] =
                  IF rlBurst[ip].n = 0
                    THEN [n |-> 1, ok |-> won,
                          emptied |-> bucket.tokens = 0,
                          idle |-> IF bucket.tokens = 0
                                     THEN rlClock - bucket.last_refill ELSE 0,
                          start |-> r.bucket.tokens + won * Scale]
                    ELSE [rlBurst[ip] EXCEPT !.n = @ + 1, !.ok = @ + won]]
    /\ UNCHANGED <<rlRate, rlCapacity, rlClock>>

\* RateLimiter::purge_stale(max_idle_secs)
PurgeStale(max_idle_secs) ==
    /\ rlBuckets' = [ip \in Ips |->
           IF /\ rlBuckets[ip] # NoBucket
              /\ rlClock - rlBuckets[ip].last_refill < max_idle_secs * TicksPerSec
             THEN rlBuckets[ip] ELSE NoBucket]
    /\ UNCHANGED <<rlRate, rlCapacity, rlClock, rlBurst>>

\* Time passes: one tick, or once the idle time after which the sweeper purges.
RlTick ==
    /\ rlClock % LongIdle < MaxTicks
    /\ rlClock' = rlClock + 1
    /\ rlBurst' = [ip \in Ips |-> NoBurst]
    /\ UNCHANGED <<rlRate, rlCapacity, rlBuckets>>

RlSleep ==
    /\ rlClock < LongIdle
    /\ rlClock' = rlClock + LongIdle
    /\ rlBurst' = [ip \in Ips |-> NoBurst]
    /\ UNCHANGED <<rlRate, rlCapacity, rlBuckets>>

\* The ticks over which requests of several IPs are followed.
IpTicks == 2

\* Requests from every IP, and time passing.
RlIpsNext ==
    \/ \E ip \in Ips : Check(ip) /\ RlAlone
    \/ rlClock < IpTicks /\ RlTick /\ RlAlone

RlNext ==
    \/ \E ip \in ActiveIps : Check(ip) /\ RlAlone
    \/ PurgeStale(PurgeIdleSecs) /\ RlAlone
    \/ RlTick /\ RlAlone
    \/ RlSleep /\ RlAlone

-----------------------------------------------------------------------------
(* Overlay loop: swarm.rs, peers.rs *)

NoConn == [kind |-> "none"]
NoReply == [kind |-> "none"]
NoOutcome == [step |-> "none"]

\* MAX_MESSAGE_SIZE, the max_transmit_size of the gossipsub configuration.
MaxMessageSize == 262144
\* data.len() of the payloads.
PayloadLen == [d \in Payloads |-> IF d = "big" THEN MaxMessageSize + 1 ELSE 2]
\* The payloads a remote peer can have published.
Receivable == {d \in Payloads : PayloadLen[d] <= MaxMessageSize}

\* SwarmCommand
Dial(addr) == [cmd |-> "Dial", addr |-> addr]
PublishMessage(topic, data) == [cmd |-> "PublishMessage", topic |-> topic, data |-> data]
SubscribeTopic(topic) == [cmd |-> "SubscribeTopic", topic |-> topic]
GetPeers(reply) == [cmd |-> "GetPeers", reply |-> reply]
Shutdown == [cmd |-> "Shutdown"]

Commands ==
    {Dial(a) : a \in Addrs}
        \cup {PublishMessage(t, d) : t \in Topics, d \in Payloads}
        \cup {SubscribeTopic(t) : t \in Topics}
        \cup {GetPeers(c) : c \in Callers}
        \cup {Shutdown}

\* SwarmNotification
PeerConnected(peer, addr) == [ntf |-> "PeerConnected", peer_id |-> peer, address |-> addr]
PeerDisconnected(peer) == [ntf |-> "PeerDisconnected", peer_id |-> peer]
MessageReceived(source, topic, data) ==
    [ntf |-> "MessageReceived", source |-> source, topic |-> topic, data |-> data]
RelayReservation(peer, addr) ==
    [ntf |-> "RelayReservation", relay_peer |-> peer, relay_addr |-> addr]

\* addr.iter().any(|p| matches!(p, Protocol::P2pCircuit))
IsRelayed(addr) == \E i \in DOMAIN addr : addr[i] = "p2p-circuit"

\* PeerTracker::on_connected; connected_at is a wall-clock stamp nothing reads.
\* (Variant: as if every connection were recorded as direct.)
OnConnectedDirect(tracker, peer, addr, is_relayed) ==
    [tracker EXCEPT ![peer] =
        [kind |-> "info", peer_id |-> peer, address |-> addr, mode |-> "Direct"]]
OnConnected(tracker, peer, addr, is_relayed) ==
    [tracker EXCEPT ![peer] =
        [kind |-> "info", peer_id |-> peer, address |-> addr,
         mode |-> IF is_relayed THEN "Relayed" ELSE "Direct"]]

\* PeerTracker::on_disconnected
\* (Variant: as if the entry were kept.)
OnDisconnectedKeep(tracker, peer) == tracker
OnDisconnected(tracker, peer) == [tracker EXCEPT ![peer] = NoConn]

\* PeerTracker::connected_peers
ConnectedPeers(tracker) == {p \in OvPeers : tracker[p] # NoConn}

\* PeerTracker::connection_mode
ConnectionMode(tracker, peer) ==
    IF tracker[peer] = NoConn THEN "Disconnected" ELSE tracker[peer].mode

AtSelect == [pc |-> "select"]
Terminated == [pc |-> "terminated"]

\* spawn_swarm: the two queues are created empty and the loop task starts.
OvInit ==
    /\ ovCmds = <<>>
    /\ ovNotifs = <<>>
    /\ ovLoop = AtSelect
    /\ ovTracker = [p \in OvPeers |-> NoConn]
    /\ ovConns = [p \in OvPeers |-> {}]
    /\ ovSubs = {}
    /\ ovReplies = [c \in Callers |-> NoReply]
    /\ ovTxOpen = TRUE
    /\ ovRxOpen = TRUE
    /\ ovInputs = 0
    /\ ovEmitted = [p \in OvPeers |-> <<>>]
    /\ ovOutcome = NoOutcome

\* The connection notifications of a peer, with n added if it is one.
Logged(n) ==
    IF n.ntf \in {"PeerConnected", "PeerDisconnected"}
      THEN [ovEmitted EXCEPT ![n.peer_id] = Append(@, n.ntf)]
      ELSE ovEmitted

\* let _ = notif_tx.send(n).await: an error when the receiver is gone, the
\* notification enqueued when there is room, the task suspended otherwise.
Send(n) ==
    IF ~ovRxOpen
      THEN ovLoop' = AtSelect /\ UNCHANGED <<ovNotifs, ovEmitted>>
      ELSE IF Len(ovNotifs) < NotifCap
        THEN /\ ovNotifs' = Append(ovNotifs, n)
             /\ ovEmitted' = Logged(n)
             /\ ovLoop' = AtSelect
        ELSE /\ ovLoop' = [pc |-> "send", notif |-> n]
             /\ UNCHANGED <<ovNotifs, ovEmitted>>

\* The suspended send completes once the queue has room or the receiver is gone.
SendResume ==
    /\ ovLoop.pc = "send"
    /\ \/ ~ovRxOpen
       \/ Len(ovNotifs) < NotifCap
    /\ Send(ovLoop.notif)
    /\ UNCHANGED <<ovCmds, ovTracker, ovConns, ovSubs, ovReplies, ovTxOpen,
                   ovRxOpen, ovInputs, ovOutcome>>

\* The application: cmd_tx.send(cmd).await
Submit(cmd) ==
    /\ ovTxOpen
    /\ ovLoop # Terminated
    /\ ovInputs < MaxInputs
    /\ Len(ovCmds) < CmdCap
    /\ ovCmds' = Append(ovCmds, cmd)
    /\ ovInputs' = ovInputs + 1
    /\ UNCHANGED <<ovNotifs, ovLoop, ovTracker, ovConns, ovSubs, ovReplies,
                   ovTxOpen, ovRxOpen, ovEmitted, ovOutcome>>

\* The application drops its command sender.
DropSender ==
    /\ ovTxOpen
    /\ ovTxOpen' = FALSE
    /\ UNCHANGED <<ovCmds, ovNotifs, ovLoop, ovTracker, ovConns, ovSubs,
                   ovReplies, ovRxOpen, ovInputs, ovEmitted, ovOutcome>>

\* The application: notif_rx.recv().await
RecvNotification ==
    /\ ovRxOpen
    /\ ovNotifs # <<>>
    /\ ovNotifs' = Tail(ovNotifs)
    /\ UNCHANGED <<ovCmds, ovLoop, ovTracker, ovConns, ovSubs, ovReplies,
                   ovTxOpen, ovRxOpen, ovInputs, ovEmitted, ovOutcome>>

\* The application drops its notification receiver, and with it what is queued.
DropReceiver ==
    /\ ovRxOpen
    /\ ovRxOpen' = FALSE
    /\ ovNotifs' = <<>>
    /\ UNCHANGED <<ovCmds, ovLoop, ovTracker, ovConns, ovSubs, ovReplies,
                   ovTxOpen, ovInputs, ovEmitted, ovOutcome>>

\* gossipsub publish(topic, data): refused when data exceeds the transmit
\* size, and otherwise accepted or refused (no peer on the topic, duplicate).
PublishResults(data) ==
    IF PayloadLen[data] > MaxMessageSize THEN {FALSE} ELSE {TRUE, FALSE}

\* What swarm.dial(addr) and gossipsub publish can answer to a command; the
\* other commands have one way to end.
Results(cmd) ==
    CASE cmd.cmd = "Dial" -> {TRUE, FALSE}
      [] cmd.cmd = "PublishMessage" -> PublishResults(cmd.data)
      [] OTHER -> {TRUE}

\* The outcome of a Dial or a PublishMessage, as the log shows it.
Outcome(cmd, ok) ==
    CASE cmd.cmd = "Dial" -> [step |-> "Dial", ok |-> ok]
      [] cmd.cmd = "PublishMessage" ->
            [step |-> "PublishMessage", ok |-> ok,
             big |-> PayloadLen[cmd.data] > MaxMessageSize]
      [] OTHER -> NoOutcome

\* Where the loop goes after a command: Shutdown breaks out of it, every
\* other command returns to the select, failed or not.
\* (Variant: as if a failed command ended the loop.)
AfterCommandStopsOnError(cmd, ok) ==
    IF cmd.cmd = "Shutdown" \/ ~ok THEN Terminated ELSE AtSelect
AfterCommand(cmd, ok) ==
    IF cmd.cmd = "Shutdown" THEN Terminated ELSE AtSelect

\* The command branch of the loop: cmd_rx.recv() yields the oldest command.
\* A failed dial and a refused publish are logged.
HandleCommand ==
    /\ ovLoop = AtSelect
    /\ ovCmds # <<>>
    /\ LET cmd == Head(ovCmds) IN
       /\ ovCmds' = Tail(ovCmds)
       /\ \E ok \in Results(cmd) :
             /\ ovOutcome' = Outcome(cmd, ok)
             /\ ovLoop' = AfterCommand(cmd, ok)
       /\ ovSubs' = IF cmd.cmd = "SubscribeTopic" THEN ovSubs \cup {cmd.topic} ELSE ovSubs
       /\ ovReplies' = IF cmd.cmd = "GetPeers"
                         THEN [ovReplies EXCEPT ![cmd.reply] =
                                 [kind |-> "peers", peers |-> ConnectedPeers(ovTracker)]]
                         ELSE ovReplies
    /\ UNCHANGED <<ovNotifs, ovTracker, ovConns, ovTxOpen, ovRxOpen, ovInputs,
                   ovEmitted>>

\* The command branch when every sender is gone: recv() yields None.
CommandChannelClosed ==
    /\ ovLoop = AtSelect
    /\ ovCmds = <<>>
    /\ ~ovTxOpen
    /\ ovLoop' = Terminated
    /\ ovOutcome' = NoOutcome
    /\ UNCHANGED <<ovCmds, ovNotifs, ovTracker, ovConns, ovSubs, ovReplies,
                   ovTxOpen, ovRxOpen, ovInputs, ovEmitted>>

\* SwarmEvent::ConnectionEstablished { peer_id, endpoint }
ConnectionEstablished(peer, addr) ==
    /\ ovLoop = AtSelect
    /\ ovInputs < MaxInputs
    /\ addr \notin ovConns[peer]
    /\ ovConns' = [ovConns EXCEPT ![peer] = @ \cup {addr}]
    /\ ovTracker' = OnConnected(ovTracker, peer, addr, IsRelayed(addr))
    /\ Send(PeerConnected(peer, addr))
    /\ ovInputs' = ovInputs + 1
    /\ ovOutcome' = NoOutcome
    /\ UNCHANGED <<ovCmds, ovSubs, ovReplies, ovTxOpen, ovRxOpen>>

\* SwarmEvent::ConnectionClosed { peer_id, num_established }
ConnectionClosed(peer, addr) ==
    /\ ovLoop = AtSelect
    /\ ovInputs < MaxInputs
    /\ addr \in ovConns[peer]
    /\ ovConns' = [ovConns EXCEPT ![peer] = @ \ {addr}]
    /\ LET num_established == Cardinality(ovConns[peer] \ {addr}) IN
       IF num_established = 0
         THEN /\ ovTracker' = OnDisconnected(ovTracker, peer)
              /\ Send(PeerDisconnected(peer))
         ELSE UNCHANGED <<ovTracker, ovNotifs, ovLoop, ovEmitted>>
    /\ ovInputs' = ovInputs + 1
    /\ ovOutcome' = NoOutcome
    /\ UNCHANGED <<ovCmds, ovSubs, ovReplies, ovTxOpen, ovRxOpen>>

\* gossipsub::Event::Message
GossipsubMessage(source, topic, data) ==
    /\ ovLoop = AtSelect
    /\ ovInputs < MaxInputs
    /\ Send(MessageReceived(source, topic, data))
    /\ ovInputs' = ovInputs + 1
    /\ ovOutcome' = NoOutcome
    /\ UNCHANGED <<ovCmds, ovTracker, ovConns, ovSubs, ovReplies, ovTxOpen, ovRxOpen>>

\* relay::client::Event::ReservationReqAccepted
ReservationReqAccepted(relay_peer, relay_addr) ==
    /\ ovLoop = AtSelect
    /\ ovInputs < MaxInputs
    /\ Send(RelayReservation(relay_peer, relay_addr))
    /\ ovInputs' = ovInputs + 1
    /\ ovOutcome' = NoOutcome
    /\ UNCHANGED <<ovCmds, ovTracker, ovConns, ovSubs, ovReplies, ovTxOpen, ovRxOpen>>

\* LiberteEvent::Dcutr(event): the outcome of a hole punch with a peer, ok
\* when the direct connection was made.  The event is logged.
DcutrEvent(peer, ok) ==
    /\ ovLoop = AtSelect
    /\ ovInputs < MaxInputs
    /\ ovInputs' = ovInputs + 1
    /\ ovOutcome' = [step |-> "Dcutr", peer |-> peer, ok |-> ok,
                     relayed |-> ConnectionMode(ovTracker, peer) = "Relayed"]
    /\ UNCHANGED <<ovCmds, ovNotifs, ovLoop, ovTracker, ovConns, ovSubs,
                   ovReplies, ovTxOpen, ovRxOpen, ovEmitted>>

\* Every other swarm event (Kademlia, Identify, listen addresses, connection
\* errors) is logged and changes nothing the loop keeps.
LoggedEvent ==
    /\ ovLoop = AtSelect
    /\ ovInputs < MaxInputs
    /\ ovInputs' = ovInputs + 1
    /\ ovOutcome' = NoOutcome
    /\ UNCHANGED <<ovCmds, ovNotifs, ovLoop, ovTracker, ovConns, ovSubs,
                   ovReplies, ovTxOpen, ovRxOpen, ovEmitted>>

OvNext ==
    \/ \E cmd \in Commands : Submit(cmd) /\ OvAlone
    \/ DropSender /\ OvAlone
    \/ RecvNotification /\ OvAlone
    \/ DropReceiver /\ OvAlone
    \/ HandleCommand /\ OvAlone
    \/ CommandChannelClosed /\ OvAlone
    \/ \E p \in OvPeers, a \in Addrs : ConnectionEstablished(p, a) /\ OvAlone
    \/ \E p \in OvPeers, a \in Addrs : ConnectionClosed(p, a) /\ OvAlone
    \/ \E src \in Sources, t \in Topics, d \in Receivable : GossipsubMessage(src, t, d) /\ OvAlone
    \/ \E p \in RelayPeers, a \in ExternalAddrs : ReservationReqAccepted(p, a) /\ OvAlone
    \/ \E p \in OvPeers, ok \in BOOLEAN : DcutrEvent(p, ok) /\ OvAlone
    \/ LoggedEvent /\ OvAlone
    \/ SendResume /\ OvAlone

-----------------------------------------------------------------------------
(* HTTP API: api.rs, config.rs *)

\* Text is a sequence of one-character strings.

\* str::strip_prefix(prefix).unwrap_or(s)
StripPrefixOr(s, prefix) ==
    IF Len(prefix) <= Len(s) /\ SubSeq(s, 1, Len(prefix)) = prefix
      THEN SubSeq(s, Len(prefix) + 1, Len(s))
      ELSE s

\* str::trim: the text without its leading and trailing white space.
White == {" ", "\t", "\n"}
RECURSIVE TrimStart(_)
TrimStart(s) == IF s # <<>> /\ Head(s) \in White THEN TrimStart(Tail(s)) ELSE s
RECURSIVE TrimEnd(_)
TrimEnd(s) ==
    IF s # <<>> /\ s[Len(s)] \in White THEN TrimEnd(SubSeq(s, 1, Len(s) - 1)) ELSE s
Trim(s) == TrimEnd(TrimStart(s))

\* hex::decode: two hexadecimal digits, of either case, make a byte.
LowerHex == <<"0", "1", "2", "3", "4", "5", "6", "7", "8", "9",
              "a", "b", "c", "d", "e", "f">>
UpperHex == <<"0", "1", "2", "3", "4", "5", "6", "7", "8", "9",
              "A", "B", "C", "D", "E", "F">>
HexChars == {LowerHex[i] : i \in 1..16} \cup {UpperHex[i] : i \in 1..16}
IsHex(c) == c \in HexChars
HexVal(c) == (CHOOSE i \in 1..16 : LowerHex[i] = c \/ UpperHex[i] = c) - 1
Decode(t) == [i \in 1..(Len(t) \div 2) |-> 16 * HexVal(t[2 * i - 1]) + HexVal(t[2 * i])]

\* parse_hex_32: the 32 bytes a text of 64 hexadecimal digits spells, or
\* BadRequest.  The text is trimmed first.
ParseHex32(hex) ==
    LET t == Trim(hex) IN
    IF Len(t) # 64 THEN [ok |-> FALSE, error |-> "BadRequest"]
    ELSE IF \E i \in 1..Len(t) : ~IsHex(t[i]) THEN [ok |-> FALSE, error |-> "BadRequest"]
    ELSE [ok |-> TRUE, value |-> Decode(t)]

\* The user a 32-byte key belongs to.
UserOf(key) == CHOOSE u \in Users : ParseHex32(UserKeyHex[u]).value = key

\* ServerConfig::from_env: ADMIN_TOKEN unset or empty leaves admin_token None.
None == [some |-> FALSE]
Some(v) == [some |-> TRUE, value |-> v]
AdminTokenFromEnv(env) == IF env.some /\ env.value # <<>> THEN Some(env.value) ELSE None

\* The scheme auth.strip_prefix removes.
Bearer == <<"B", "e", "a", "r", "e", "r", " ">>

\* subtle::ConstantTimeEq on byte strings of one length.
CtEq(a, b) == Len(a) = Len(b) /\ \A i \in 1..Len(a) : a[i] = b[i]

\* verify_admin_token
\* (Variant: as if the admin surface were open when no token is configured.)
VerifyAdminTokenOpen(headers, admin_token) ==
    IF ~admin_token.some THEN "Ok"
    ELSE LET auth == IF headers.some THEN headers.value ELSE <<>>
             token == StripPrefixOr(auth, Bearer)
         IN  IF Len(token) # Len(admin_token.value) \/ ~CtEq(token, admin_token.value)
               THEN "Forbidden"
               ELSE "Ok"
VerifyAdminToken(headers, admin_token) ==
    IF ~admin_token.some THEN "Forbidden"
    ELSE LET auth == IF headers.some THEN headers.value ELSE <<>>
             token == StripPrefixOr(auth, Bearer)
         IN  IF Len(token) # Len(admin_token.value) \/ ~CtEq(token, admin_token.value)
               THEN "Forbidden"
               ELSE "Ok"

NoRequest == [endpoint |-> "none"]

\* admin_status
AdminStatus(headers) ==
    /\ apLast' = [endpoint |-> "admin_status", headers |-> headers,
                  status |-> VerifyAdminToken(headers, apAdminToken)]
    /\ UNCHANGED <<pmVars, apAdminToken>>

\* admin_grant_premium
AdminGrantPremium(headers, user_pubkey_hex) ==
    LET auth == VerifyAdminToken(headers, apAdminToken)
        pubkey == ParseHex32(user_pubkey_hex)
        status == IF auth # "Ok" THEN auth
                  ELSE IF ~pubkey.ok THEN pubkey.error ELSE "Ok"
    IN  /\ apLast' = [endpoint |-> "admin_grant_premium", headers |-> headers,
                      user_pubkey_hex |-> user_pubkey_hex, status |-> status]
        /\ IF status = "Ok" THEN AdminGrant(UserOf(pubkey.value))
                            ELSE UNCHANGED pmVars
        /\ UNCHANGED apAdminToken

\* admin_revoke_premium
AdminRevokePremium(headers, user_pubkey_hex) ==
    LET auth == VerifyAdminToken(headers, apAdminToken)
        pubkey == ParseHex32(user_pubkey_hex)
        status == IF auth # "Ok" THEN auth
                  ELSE IF ~pubkey.ok THEN pubkey.error ELSE "Ok"
    IN  /\ apLast' = [endpoint |-> "admin_revoke_premium", headers |-> headers,
                      user_pubkey_hex |-> user_pubkey_hex, status |-> status]
        /\ IF status = "Ok" THEN AdminRevoke(UserOf(pubkey.value))
                            ELSE UNCHANGED pmVars
        /\ UNCHANGED apAdminToken

\* The clock of the server goes on between requests.
AdTick == PmTick /\ UNCHANGED <<apAdminToken, apLast>>

AdNext ==
    \/ \E h \in AdminHeaders : AdminStatus(h) /\ AdAlone
    \/ \E h \in AdminHeaders, k \in AdminKeys : AdminGrantPremium(h, k) /\ AdAlone
    \/ \E h \in AdminHeaders, k \in AdminKeys : AdminRevokePremium(h, k) /\ AdAlone
    \/ AdTick /\ AdAlone

-----------------------------------------------------------------------------
(* Blob store and backups: blob_store.rs, api.rs *)

\* A path is the sequence of its components (std::path::Component), each a
\* text: the root, the current directory, the parent directory, or a normal
\* name.
Root == <<"/">>
CurDir == <<".">>
ParentDir == <<".", ".">>
IsNormal(c) == c # Root /\ c # CurDir /\ c # ParentDir

\* str::contains
Contains(s, sub) ==
    \E i \in 1..(Len(s) - Len(sub) + 1) : \A j \in 1..Len(sub) : s[i + j - 1] = sub[j]

\* The pieces of a text between separators.
RECURSIVE Split(_, _)
Split(s, sep) ==
    IF ~Contains(s, <<sep>>) THEN <<s>>
    ELSE LET i == CHOOSE j \in 1..Len(s) :
                     s[j] = sep /\ \A k \in 1..(j - 1) : s[k] # sep
         IN  <<SubSeq(s, 1, i - 1)>> \o Split(SubSeq(s, i + 1, Len(s)), sep)

\* Path::components of the path a text spells (Unix): empty pieces and
\* non-leading "." are dropped.
IsAbsolute(s) == s # <<>> /\ s[1] = "/"
Components(s) ==
    LET pieces == Split(s, "/")
        lead == IF IsAbsolute(s) THEN <<Root>>
                ELSE IF pieces[1] = CurDir THEN <<CurDir>> ELSE <<>>
    IN  lead \o SelectSeq(pieces, LAMBDA p : p # <<>> /\ p # CurDir)

\* Path::join
Join(path, s) ==
    IF IsAbsolute(s) \/ path = <<>> THEN Components(s)
    ELSE path \o SelectSeq(Components(s), LAMBDA c : c # CurDir)

\* Path::starts_with, Path::strip_prefix(..).unwrap_or(..)
PathStartsWith(path, base) ==
    Len(base) <= Len(path) /\ SubSeq(path, 1, Len(base)) = base
StripBaseOr(path, base) ==
    IF PathStartsWith(path, base) THEN SubSeq(path, Len(base) + 1, Len(path)) ELSE path

\* The working directory of the server process, and the absolute path the
\* file system takes a path for.
Cwd == <<Root, <<"a", "p", "p">>>>
RECURSIVE Normalize(_, _)
Normalize(acc, rest) ==
    IF rest = <<>> THEN acc
    ELSE LET c == Head(rest)
             next == IF c = CurDir THEN acc
                     ELSE IF c = ParentDir
                       THEN (IF Len(acc) > 1 THEN SubSeq(acc, 1, Len(acc) - 1) ELSE acc)
                       ELSE Append(acc, c)
         IN  Normalize(next, Tail(rest))
Abs(path) ==
    IF path # <<>> /\ path[1] = Root THEN Normalize(<<Root>>, Tail(path))
                                     ELSE Normalize(Cwd, path)
Ancestors(path) == {SubSeq(Abs(path), 1, k) : k \in 1..Len(Abs(path))}

\* The file system calls the handlers make.
FileAt(files, path) == {f \in files : f.path = Abs(path)}
Exists(dirs, files, path) == Abs(path) \in dirs \/ FileAt(files, path) # {}
Canonicalize(dirs, files, path) ==
    IF Exists(dirs, files, path) THEN [ok |-> TRUE, path |-> Abs(path)]
                                 ELSE [ok |-> FALSE]
CreateDirAll(dirs, path) == dirs \cup Ancestors(path)
CanWrite(dirs, path) ==
    LET p == Abs(path) IN
    Len(p) > 1 /\ SubSeq(p, 1, Len(p) - 1) \in dirs /\ p \notin dirs
Write(files, path, data) ==
    (files \ FileAt(files, path)) \cup {[path |-> Abs(path), data |-> data]}
Read(files, path) == (CHOOSE f \in FileAt(files, path) : TRUE).data
RemoveFile(files, path) == files \ FileAt(files, path)

\* ensure_within
EnsureWithin(base, target) ==
    LET canon == Canonicalize(fsDirs, fsFiles, base)
        canonical_base == IF canon.ok THEN canon.path ELSE base
        rest == StripBaseOr(target, canonical_base)
        resolved == canonical_base \o SelectSeq(rest, IsNormal)
    IN  IF \E i \in 1..Len(rest) : rest[i] = ParentDir
          THEN [ok |-> FALSE, error |-> "BadRequest", io |-> TRUE]
        ELSE IF ~PathStartsWith(resolved, canonical_base)
          THEN [ok |-> FALSE, error |-> "BadRequest", io |-> TRUE]
        ELSE [ok |-> TRUE, path |-> resolved, io |-> TRUE]

\* id.to_string()
UuidText(id) == <<"i", LowerHex[id + 1]>>

\* BlobStore::safe_blob_path
SafeBlobPath(id) == EnsureWithin(apBase, Join(apBase, UuidText(id)))

\* The texts safe_subpath refuses.
Slash == <<"/">>
Backslash == <<"\\">>
DotDot == <<".", ".">>
Unsafe(s) == Contains(s, Slash) \/ Contains(s, Backslash) \/ Contains(s, DotDot)

\* BlobStore::safe_subpath; io tells whether the file system was consulted.
\* (Variant: as if only the file name were looked at.)
SafeSubpathOfName(subdir, filename) ==
    IF Unsafe(filename)
      THEN [ok |-> FALSE, error |-> "BadRequest", io |-> FALSE]
      ELSE EnsureWithin(apBase, Join(Join(apBase, subdir), filename))
SafeSubpath(subdir, filename) ==
    IF Unsafe(subdir) \/ Unsafe(filename)
      THEN [ok |-> FALSE, error |-> "BadRequest", io |-> FALSE]
      ELSE EnsureWithin(apBase, Join(Join(apBase, subdir), filename))

NotStored == [stored |-> FALSE]
NoPath == [ok |-> FALSE]

\* BlobStore::new: create_dir_all(base_path)
BlobInit(base_text) ==
    /\ apBase = Components(base_text)
    /\ fsDirs = CreateDirAll(Ancestors(Cwd), Components(base_text))
    /\ fsFiles = {}
    /\ apNextId = 0
    /\ apBlobs = [id \in 1..MaxBlobs |-> NotStored]

\* ServerError::into_response: the HTTP status of an answer.
IntoResponse(status) ==
    CASE status = "Ok" -> 200
      [] status = "BlobNotFound" -> 404
      [] status = "BlobTooLarge" -> 413
      [] status = "BlobStorage" -> 500
      [] status = "PremiumVerificationFailed" -> 401
      [] status = "BadRequest" -> 400
      [] status = "Forbidden" -> 403
      [] status = "NotFound" -> 404
      [] status = "Internal" -> 500

\* BlobStore::store_blob, called directly or by the blob_upload handler;
\* Uuid::new_v4 yields an id never used before.
StoreBlobFor(endpoint, data) ==
    /\ apNextId < MaxBlobs
    /\ LET id == apNextId + 1
           path == SafeBlobPath(id)
           status == IF data = <<>> THEN "BlobStorage"
                     ELSE IF Len(data) > MaxBlobSize THEN "BlobTooLarge"
                     ELSE IF ~path.ok THEN path.error
                     ELSE IF ~CanWrite(fsDirs, path.path) THEN "BlobStorage"
                     ELSE "Ok"
           checked == data # <<>> /\ Len(data) <= MaxBlobSize
       IN  /\ apNextId' = IF checked THEN id ELSE apNextId
           /\ fsFiles' = IF status = "Ok" THEN Write(fsFiles, path.path, data) ELSE fsFiles
           /\ apBlobs' = IF status = "Ok"
                           THEN [apBlobs EXCEPT ![id] = [stored |-> TRUE, data |-> data]]
                           ELSE apBlobs
           /\ apLast' = [endpoint |-> endpoint, data |-> data, status |-> status,
                         id |-> IF status = "Ok" THEN id ELSE 0,
                         io |-> checked,
                         path |-> IF checked /\ path.ok THEN path ELSE NoPath]
    /\ UNCHANGED <<apAdminToken, apBase, fsDirs>>

StoreBlob(data) == StoreBlobFor("store_blob", data)

\* blob_upload: the first multipart field named "file" is stored; a form
\* without one is a bad request.
BlobUpload(has_file, data) ==
    IF has_file
      THEN StoreBlobFor("blob_upload", data)
      ELSE /\ apLast' = [endpoint |-> "blob_upload_no_file", status |-> "BadRequest"]
           /\ UNCHANGED <<apAdminToken, apBase, fsDirs, fsFiles, apNextId, apBlobs>>

\* BlobStore::get_blob
GetBlobResult(id) ==
    LET path == SafeBlobPath(id) IN
    IF ~path.ok THEN [ok |-> FALSE, error |-> path.error]
    ELSE IF ~Exists(fsDirs, fsFiles, path.path) THEN [ok |-> FALSE, error |-> "BlobNotFound"]
    ELSE IF FileAt(fsFiles, path.path) = {} THEN [ok |-> FALSE, error |-> "BlobStorage"]
    ELSE [ok |-> TRUE, data |-> Read(fsFiles, path.path)]

GetBlob(id) ==
    /\ apLast' = [endpoint |-> "get_blob", id |-> id, result |-> GetBlobResult(id),
                  io |-> TRUE, path |-> SafeBlobPath(id)]
    /\ UNCHANGED <<apAdminToken, apBase, fsDirs, fsFiles, apNextId, apBlobs>>

\* BlobStore::delete_blob
DeleteBlob(id) ==
    LET path == SafeBlobPath(id)
        status == IF ~path.ok THEN path.error
                  ELSE IF ~Exists(fsDirs, fsFiles, path.path) THEN "BlobNotFound"
                  ELSE IF FileAt(fsFiles, path.path) = {} THEN "BlobStorage"
                  ELSE "Ok"
    IN  /\ fsFiles' = IF status = "Ok" THEN RemoveFile(fsFiles, path.path) ELSE fsFiles
        /\ apBlobs' = IF status = "Ok" THEN [apBlobs EXCEPT ![id] = NotStored] ELSE apBlobs
        /\ apLast' = [endpoint |-> "delete_blob", id |-> id, status |-> status,
                      io |-> TRUE, path |-> path]
        /\ UNCHANGED <<apAdminToken, apBase, fsDirs, apNextId>>

\* format!("{}.enc", user_pubkey_hex)
DotEnc == <<".", "e", "n", "c">>
Backups == <<"b", "a", "c", "k", "u", "p", "s">>

\* backup_sync_upload
BackupSyncUpload(user_pubkey_hex, encrypted_data) ==
    LET pubkey == ParseHex32(user_pubkey_hex)
        backup_dir == Join(apBase, Backups)
        dirs == IF pubkey.ok THEN CreateDirAll(fsDirs, backup_dir) ELSE fsDirs
        file_path == SafeSubpath(Backups, user_pubkey_hex \o DotEnc)
        status == IF ~pubkey.ok THEN pubkey.error
                  ELSE IF ~file_path.ok THEN file_path.error
                  ELSE IF ~CanWrite(dirs, file_path.path) THEN "Internal"
                  ELSE "Ok"
    IN  /\ fsDirs' = dirs
        /\ fsFiles' = IF status = "Ok"
                        THEN Write(fsFiles, file_path.path, encrypted_data)
                        ELSE fsFiles
        /\ apLast' = [endpoint |-> "backup_sync_upload",
                      user_pubkey_hex |-> user_pubkey_hex, status |-> status,
                      io |-> pubkey.ok,
                      path |-> IF pubkey.ok /\ file_path.ok THEN file_path ELSE NoPath]
        /\ UNCHANGED <<apAdminToken, apBase, apNextId, apBlobs>>

\* backup_sync_download
BackupSyncDownload(pubkey_hex) ==
    LET pubkey == ParseHex32(pubkey_hex)
        file_path == SafeSubpath(Backups, pubkey_hex \o DotEnc)
        status == IF ~pubkey.ok THEN pubkey.error
                  ELSE IF ~file_path.ok THEN file_path.error
                  ELSE IF ~Exists(fsDirs, fsFiles, file_path.path) THEN "NotFound"
                  ELSE IF FileAt(fsFiles, file_path.path) = {} THEN "Internal"
                  ELSE "Ok"
    IN  /\ apLast' = [endpoint |-> "backup_sync_download",
                      user_pubkey_hex |-> pubkey_hex, status |-> status,
                      io |-> pubkey.ok,
                      path |-> IF pubkey.ok /\ file_path.ok THEN file_path ELSE NoPath]
        /\ UNCHANGED <<apAdminToken, apBase, fsDirs, fsFiles, apNextId, apBlobs>>

\* A call of safe_subpath on the texts a caller hands it.
CallSafeSubpath(subdir, filename) ==
    LET result == SafeSubpath(subdir, filename) IN
    /\ apLast' = [endpoint |-> "safe_subpath", subdir |-> subdir,
                  filename |-> filename,
                  status |-> IF result.ok THEN "Ok" ELSE result.error,
                  io |-> result.io,
                  path |-> IF result.ok THEN result ELSE NoPath]
    /\ UNCHANGED <<apAdminToken, apBase, fsDirs, fsFiles, apNextId, apBlobs>>

BsNext ==
    \/ \E d \in BlobData : StoreBlob(d) /\ BsAlone
    \/ \E f \in BOOLEAN, d \in BlobData : BlobUpload(f, d) /\ BsAlone
    \/ \E id \in 1..MaxBlobs : GetBlob(id) /\ BsAlone
    \/ \E id \in 1..MaxBlobs : DeleteBlob(id) /\ BsAlone
    \/ \E c \in SubpathCalls : CallSafeSubpath(c[1], c[2]) /\ BsAlone

BkNext ==
    \/ \E k \in BackupKeys, d \in BackupData : BackupSyncUpload(k, d) /\ BsAlone
    \/ \E k \in BackupKeys : BackupSyncDownload(k) /\ BsAlone

\* The API after start-up with the default configuration.
ApiInit ==
    /\ apAdminToken = None
    /\ apLast = NoRequest
    /\ BlobInit(DefaultBase)

-----------------------------------------------------------------------------
(* Invite tokens: liberte-shared/src/invite.rs *)

\* INVITE_DURATION_SECS
InviteDurationSecs == 300

Identities == {"alice", "mallory"}
\* Identity::public_key_bytes
PublicKeyBytes(identity) == <<"pk", identity>>
ChannelIds == {"c1", "c2"}
ChannelNames == {<<"c", "h">>, <<"h", "a", "c", "k", "e", "d">>}
ChannelKeys == {"k1", "k2"}
\* The instants at which a token is created (the first two), altered to, or
\* verified.
Instants ==
    {0, 1, InviteDurationSecs - 1, InviteDurationSecs, InviteDurationSecs + 1,
     InviteDurationSecs + 2}
CreateInstants == {0, 1}

NoToken == [kind |-> "none"]
NoResult == "none"

\* bincode::serialize(&payload): the fields in declaration order, the string
\* with its length in front.
Serialize(payload) ==
    <<payload.channel_id, Len(payload.channel_name)>> \o payload.channel_name
        \o <<payload.inviter_pubkey, payload.channel_key,
             payload.created_at, payload.expires_at>>

\* InviteToken::create at the instant now; Identity::sign signs with the
\* secret half of the identity's key.
InviteTokenCreate(identity, channel_id, channel_name, channel_key, now) ==
    LET payload == [channel_id |-> channel_id,
                    channel_name |-> channel_name,
                    inviter_pubkey |-> PublicKeyBytes(identity),
                    channel_key |-> channel_key,
                    created_at |-> now,
                    expires_at |-> now + InviteDurationSecs]
    IN  [kind |-> "token", payload |-> payload,
         signature |-> Sign(PublicKeyBytes(identity), Serialize(payload))]

\* InviteToken::verify without the expiry check.
InviteTokenVerifyNoExpiry(token, now) ==
    IF VerifySig(token.payload.inviter_pubkey, Serialize(token.payload),
                 token.signature)
      THEN "Ok"
      ELSE "InvalidSignature"

\* InviteToken::verify at the instant now.
InviteTokenVerify(token, now) ==
    IF now > token.payload.expires_at THEN "Expired"
    ELSE IF VerifySig(token.payload.inviter_pubkey, Serialize(token.payload),
                      token.signature)
      THEN "Ok"
    ELSE "InvalidSignature"

PayloadFields ==
    {"channel_id", "channel_name", "inviter_pubkey", "channel_key",
     "created_at", "expires_at"}
FieldValues(field) ==
    CASE field = "channel_id" -> ChannelIds
      [] field = "channel_name" -> ChannelNames
      [] field = "inviter_pubkey" -> {PublicKeyBytes(i) : i \in Identities}
      [] field = "channel_key" -> ChannelKeys
      [] field = "created_at" -> Instants
      [] field = "expires_at" -> Instants

InviteInit ==
    /\ ivToken = NoToken
    /\ ivSigned = NoToken
    /\ ivNow = 0
    /\ ivLast = NoResult

\* The inviter creates a token and hands it over.
IvCreate(identity, channel_id, channel_name, channel_key) ==
    /\ ivNow \in CreateInstants
    /\ ivToken' = InviteTokenCreate(identity, channel_id, channel_name,
                                    channel_key, ivNow)
    /\ ivSigned' = ivToken'
    /\ ivLast' = NoResult
    /\ UNCHANGED ivNow

\* Somebody between the inviter and the invited peer rewrites one field of
\* the payload (the fields are public).
IvAlter(field, value) ==
    /\ ivToken # NoToken
    /\ ivToken.payload[field] # value
    /\ ivToken' = [ivToken EXCEPT !.payload[field] = value]
    /\ ivLast' = NoResult
    /\ UNCHANGED <<ivSigned, ivNow>>

\* The wall clock of the invited peer shows another instant.
IvClock(t) ==
    /\ t # ivNow
    /\ ivNow' = t
    /\ ivLast' = NoResult
    /\ UNCHANGED <<ivToken, ivSigned>>

\* The invited peer calls token.verify().
IvVerify ==
    /\ ivToken # NoToken
    /\ ivLast' = InviteTokenVerify(ivToken, ivNow)
    /\ UNCHANGED <<ivToken, ivSigned, ivNow>>

IvNext ==
    \/ \E i \in Identities, c \in {"c1"}, n \in {<<"c", "h">>}, k \in {"k1"} :
          IvCreate(i, c, n, k) /\ IvAlone
    \/ \E f \in PayloadFields : \E v \in FieldValues(f) : IvAlter(f, v) /\ IvAlone
    \/ \E t \in Instants : IvClock(t) /\ IvAlone
    \/ IvVerify /\ IvAlone

-----------------------------------------------------------------------------
(* Client bridge: liberte-client/src/swarm_bridge.rs,                      *)
(* liberte-store/src/messages.rs                                           *)

\* The notifications and direct inserts one behaviour handles.
MaxNotifs == 2

NoRow == "no row"
NoMsg == [variant |-> "none"]
\* The local identity's public key and a remote peer's.
OwnPubkey == "me"

\* Uuid's hyphenated text, and Uuid::parse_str.
ChannelText(c) == IF c = "c1" THEN <<"c", "1">> ELSE <<"c", "2">>
UuidParseStr(text) ==
    IF \E c \in ChannelIds : ChannelText(c) = text
      THEN Some(CHOOSE c \in ChannelIds : ChannelText(c) = text)
      ELSE None

\* str::strip_prefix
StripPrefix(s, prefix) ==
    IF Len(prefix) <= Len(s) /\ SubSeq(s, 1, Len(prefix)) = prefix
      THEN Some(SubSeq(s, Len(prefix) + 1, Len(s)))
      ELSE None

ChannelPrefix == <<"c", "h", "a", "n", "n", "e", "l", ":">>
\* ChannelId::to_topic
ToTopic(c) == ChannelPrefix \o ChannelText(c)
BrTopics ==
    {ToTopic(c) : c \in ChannelIds}
        \cup {ChannelPrefix \o <<"z">>, <<"c", "h", "a", "t">>}

\* WireMessage values; the fields a variant lacks are left empty.
ChatMessage(sender, id, content) ==
    [variant |-> "ChatMessage", sender |-> sender, message_id |-> id,
     encrypted_content |-> content]
OtherMessage(variant, sender) ==
    [variant |-> variant, sender |-> sender, message_id |-> "", encrypted_content |-> ""]
WireMessages ==
    {ChatMessage("peer", "m1", "x"), ChatMessage("peer", "m1", "y"),
     ChatMessage("peer", "m2", "x"), ChatMessage("me", "m2", "y")}
        \cup {OtherMessage(v, "peer") : v \in {"TypingIndicator", "PeerStatus"}}

\* Byte strings: the bincode form of a WireMessage, the output of
\* crypto::encrypt under a key, and bytes that are neither.
ToBytes(msg) == [kind |-> "bincode", msg |-> msg]
Garbage == [kind |-> "garbage"]
Encrypt(key, bytes) == [kind |-> "sealed", key |-> key, inner |-> bytes]
BrData ==
    {ToBytes(m) : m \in WireMessages}
        \cup {Encrypt(k, ToBytes(ChatMessage("peer", "m1", "x"))) : k \in ChannelKeys}
        \cup {Encrypt("k1", ToBytes(OtherMessage("TypingIndicator", "peer"))),
              Encrypt("k1", Garbage)}
        \cup {Garbage}

\* WireMessage::from_bytes
FromBytes(data) == IF data.kind = "bincode" THEN Some(data.msg) ELSE None
\* crypto::decrypt: the plaintext when the tag verifies under the key.
Decrypt(key, data) ==
    IF data.kind = "sealed" /\ data.key = key THEN Some(data.inner) ELSE None

\* hex::encode of a key, and hex::decode with the 32-byte length test.
HexEncode(key) == <<"hex", key>>
HexDecode32(key_hex) ==
    IF \E k \in ChannelKeys : HexEncode(k) = key_hex
      THEN Some(CHOOSE k \in ChannelKeys : HexEncode(k) = key_hex)
      ELSE None

\* Database::get_channel_key: the key_hex of the channel's row.
GetChannelKey(channel) ==
    IF brKeys[channel] = NoRow THEN None ELSE Some(brKeys[channel])

\* A row of table messages.
Message(id, channel, sender, content) ==
    [id |-> id, channel_id |-> channel, sender_pubkey |-> sender,
     encrypted_content |-> content]

\* The INSERT appends whatever the key says.
InsertMessageNoKey(rows, message) ==
    [ok |-> TRUE, rows |-> Append(rows, message)]

\* Database::insert_message: the INSERT fails on the PRIMARY KEY when the id
\* is already present and on the FOREIGN KEY when the channel has no row
\* (channels with a key row have one).
InsertMessage(rows, message) ==
    IF \E i \in DOMAIN rows : rows[i].id = message.id
      THEN [ok |-> FALSE, rows |-> rows]
    ELSE IF brKeys[message.channel_id] = NoRow
      THEN [ok |-> FALSE, rows |-> rows]
    ELSE [ok |-> TRUE, rows |-> Append(rows, message)]

\* The match on the decoded message: what it stores and what it emits.
Dispatch(channel, msg) ==
    IF msg.variant = "ChatMessage" /\ msg.sender # OwnPubkey
      THEN LET ins == InsertMessage(brMessages,
                          Message(msg.message_id, channel, msg.sender,
                                  msg.encrypted_content))
           IN  [rows |-> ins.rows,
                events |-> <<[event |-> "new-message", id |-> msg.message_id]>>,
                insert |-> IF ins.ok THEN "Ok" ELSE "Err"]
    ELSE IF msg.variant = "TypingIndicator"
      THEN [rows |-> brMessages,
            events |-> <<[event |-> msg.variant, id |-> ""]>>,
            insert |-> "none"]
    ELSE [rows |-> brMessages, events |-> <<>>, insert |-> "none"]

BridgeInit ==
    /\ brKeys = [c \in ChannelIds |-> NoRow]
    /\ brMessages = <<>>
    /\ brEvents = <<>>
    /\ brLast = [op |-> "none"]

\* store_channel_key, after the channel was created or an invite accepted.
StoreChannelKey(channel, key) ==
    /\ brKeys[channel] = NoRow
    /\ brKeys' = [brKeys EXCEPT ![channel] = HexEncode(key)]
    /\ brLast' = [op |-> "store_channel_key"]
    /\ UNCHANGED <<brMessages, brEvents>>

\* A return before the match: nothing stored, nothing emitted.
Drop(why, tried) ==
    [rows |-> brMessages, events |-> <<>>, insert |-> "none", dropped |-> why,
     tried |-> tried, dispatched |-> NoMsg]
Dispatched(channel, msg, tried) ==
    LET done == Dispatch(channel, msg)
    IN  [rows |-> done.rows, events |-> done.events, insert |-> done.insert,
         dropped |-> "no", tried |-> tried, dispatched |-> msg]

\* A decoding that decrypts first and tries the bytes as they are second.
DecodedDecryptFirst(channel, channel_key, data) ==
    LET opened == Decrypt(channel_key, data) IN
    IF opened.some /\ FromBytes(opened.value).some
      THEN Dispatched(channel, FromBytes(opened.value).value,
                      <<"decrypt", "from_bytes plaintext">>)
    ELSE IF FromBytes(data).some
      THEN Dispatched(channel, FromBytes(data).value,
                      <<"decrypt", "from_bytes data">>)
    ELSE Drop("decode", <<"decrypt", "from_bytes data">>)

\* The decoding of handle_incoming_message, once the key is known.
Decoded(channel, channel_key, data) ==
    LET plain == FromBytes(data) IN
    IF plain.some THEN Dispatched(channel, plain.value, <<"from_bytes data">>)
    ELSE LET opened == Decrypt(channel_key, data) IN
         IF ~opened.some THEN Drop("decode", <<"from_bytes data", "decrypt">>)
         ELSE LET second == FromBytes(opened.value) IN
              IF second.some
                THEN Dispatched(channel, second.value,
                                <<"from_bytes data", "decrypt", "from_bytes plaintext">>)
                ELSE Drop("decode",
                          <<"from_bytes data", "decrypt", "from_bytes plaintext">>)

\* The key lookup of handle_incoming_message, once the channel is known.
WithKey(channel, data) ==
    LET key_hex == GetChannelKey(channel) IN
    IF ~key_hex.some THEN Drop("key", <<>>)
    ELSE LET key_bytes == HexDecode32(key_hex.value) IN
         IF ~key_bytes.some THEN Drop("key", <<>>)
         ELSE Decoded(channel, key_bytes.value, data)

\* What handle_incoming_message does with one MessageReceived notification.
Handled(topic, data) ==
    LET stripped == StripPrefix(topic, ChannelPrefix) IN
    IF ~stripped.some THEN Drop("topic", <<>>)
    ELSE LET channel_uuid == UuidParseStr(stripped.value) IN
         IF ~channel_uuid.some THEN Drop("channel id", <<>>)
         ELSE WithKey(channel_uuid.value, data)

\* handle_incoming_message for one MessageReceived notification.
HandleIncomingMessage(topic, data) ==
    /\ Len(brEvents) < MaxNotifs
    /\ LET out == Handled(topic, data)
       IN  /\ brMessages' = out.rows
           /\ brEvents' = brEvents \o out.events
           /\ brLast' = [op |-> "handle_incoming_message",
                         topic |-> topic, data |-> data,
                         dropped |-> out.dropped, tried |-> out.tried,
                         dispatched |-> out.dispatched, insert |-> out.insert]
    /\ UNCHANGED brKeys

\* The rows send_message and other callers insert.
SentMessages ==
    {Message("m1", "c1", OwnPubkey, "x"), Message("m1", "c1", OwnPubkey, "y"),
     Message("m2", "c2", OwnPubkey, "y")}

\* Database::insert_message called by send_message or any other caller.
CallInsertMessage(message) ==
    /\ Len(brMessages) < MaxNotifs
    /\ LET ins == InsertMessage(brMessages, message)
       IN  /\ brMessages' = ins.rows
           /\ brLast' = [op |-> "insert_message", message |-> message,
                         known |-> \E i \in DOMAIN brMessages :
                                       brMessages[i].id = message.id,
                         insert |-> IF ins.ok THEN "Ok" ELSE "Err"]
    /\ UNCHANGED <<brKeys, brEvents>>

BrNext ==
    \/ \E k \in ChannelKeys : StoreChannelKey("c1", k) /\ BrAlone
    \/ StoreChannelKey("c2", "k2") /\ BrAlone
    \/ \E t \in BrTopics, d \in BrData : HandleIncomingMessage(t, d) /\ BrAlone
    \/ \E m \in SentMessages : CallInsertMessage(m) /\ BrAlone

-----------------------------------------------------------------------------
(* Voice calls: liberte-client/src/commands/media.rs,                      *)
(* liberte-media/src/audio.rs                                              *)

\* Calls started in one behaviour.
MaxCalls == 2
\* Frames the capture callback produces in one behaviour.
MaxVoiceFrames == 2
\* Capacity of the overlay command queue (256 in swarm.rs).
VoiceCmdCap == 2
\* Capacity of the capture queue (10 in start_call).
CaptureCap == 1
\* Commands (start_call, end_call, toggle_mute) in one behaviour.
MaxVoiceOps == 4

NoFrame == [kind |-> "none", call |-> 0, n |-> 0, taken_muted |-> FALSE, cmd |-> Shutdown]
NoTask ==
    [pc |-> "none", active |-> FALSE, muted |-> FALSE, sequence |-> 0,
     pending |-> NoFrame, last_skipped |-> 0]

VoiceEvent(channel, event_type) ==
    [variant |-> "VoiceEvent", user_id |-> OwnPubkey, channel_id |-> channel,
     event_type |-> event_type]
VoiceFrame(channel, sequence, frame) ==
    [variant |-> "VoiceFrame", sender |-> OwnPubkey, channel_id |-> channel,
     sequence |-> sequence, audio_data |-> frame.sound]

\* The channel key as start_call, end_call and toggle_mute look it up.
ChannelKeyOf(channel) ==
    LET key_hex == GetChannelKey(channel) IN
    IF key_hex.some THEN HexDecode32(key_hex.value) ELSE None

\* An entry of the command queue: the command, and as history what it
\* carries, which call and captured frame it stems from and whether the mute
\* flag was set when the frame was taken.
Queued(kind, call, n, taken_muted, cmd) ==
    [kind |-> kind, call |-> call, n |-> n, taken_muted |-> taken_muted, cmd |-> cmd]

\* cmd_tx.try_send: the queue with the command appended when there is room.
CmdTrySend(queue, item) ==
    IF Len(queue) < VoiceCmdCap THEN Append(queue, item) ELSE queue

\* publish_wire_message
PublishWireMessage(queue, channel, channel_key, msg) ==
    CmdTrySend(queue,
               Queued("event", 0, 0, FALSE,
                      PublishMessage(ToTopic(channel),
                                     Encrypt(channel_key, ToBytes(msg)))))

\* A sender task that never looks at the mute flag.
SenderMutedNever(i) == FALSE

\* sender_muted.load(Ordering::Relaxed)
SenderMuted(i) == vcTask[i].muted

\* The loop condition `while sender_active.load(..)`.
LoopHead(active) == IF active THEN "recv" ELSE "ended"

VoiceInit ==
    /\ vcInCall = FALSE
    /\ vcIsMuted = FALSE
    /\ vcCur = 0
    /\ vcCalls = 0
    /\ vcTask = [i \in 1..MaxCalls |-> NoTask]
    /\ vcCapture = [i \in 1..MaxCalls |-> <<>>]
    /\ vcFrames = 0
    /\ vcCmds = <<>>
    /\ vcDone = <<>>
    /\ vcLast = [op |-> "none"]

\* start_call: a fresh AudioEngine, the Join event, the voice sender task.
StartCallRest(channel, channel_key) ==
    /\ Len(vcDone) < MaxVoiceOps
    /\ vcCalls < MaxCalls
    /\ LET i == vcCalls + 1
       IN  /\ vcCalls' = i
           /\ vcCur' = i
           /\ vcTask' = [vcTask EXCEPT ![i] =
                  [pc |-> "recv", active |-> TRUE, muted |-> FALSE, sequence |-> 0,
                   pending |-> NoFrame, last_skipped |-> 0]]
           /\ vcCmds' = PublishWireMessage(vcCmds, channel, channel_key,
                                           VoiceEvent(channel, "Join"))
           /\ vcDone' = Append(vcDone, [event |-> "Join",
                                        sent |-> Len(vcCmds) < VoiceCmdCap])
    /\ vcInCall' = TRUE
    /\ vcIsMuted' = FALSE
    /\ vcLast' = [op |-> "start_call"]
    /\ UNCHANGED <<vcCapture, vcFrames>>

\* start_call when no other command runs between its two critical sections:
\* the in-call check and the key lookup, then the rest.
StartCall(channel) ==
    /\ ~vcInCall
    /\ ChannelKeyOf(channel).some
    /\ StartCallRest(channel, ChannelKeyOf(channel).value)

\* start_call as the runtime can interleave it with other commands: the
\* first critical section (in-call check, key lookup) ...
StartCallCheck(channel) ==
    /\ vcCalls + vcChecked < MaxCalls
    /\ ~vcInCall
    /\ ChannelKeyOf(channel).some
    /\ vcChecked' = vcChecked + 1
    /\ UNCHANGED vcVars
\* ... and what follows once the lock is released: the engine, the state
\* update in the second critical section, the Join event and the sender task.
StartCallCommit(channel) ==
    /\ vcChecked > 0
    /\ vcChecked' = vcChecked - 1
    /\ StartCallRest(channel, ChannelKeyOf(channel).value)

\* end_call: the active flag is cleared and the Leave event published.
EndCall(channel) ==
    /\ Len(vcDone) < MaxVoiceOps
    /\ vcInCall
    /\ vcTask' = [vcTask EXCEPT ![vcCur].active = FALSE]
    /\ LET channel_key == ChannelKeyOf(channel)
       IN  /\ vcCmds' = IF channel_key.some
                          THEN PublishWireMessage(vcCmds, channel, channel_key.value,
                                                  VoiceEvent(channel, "Leave"))
                          ELSE vcCmds
           /\ vcDone' = Append(vcDone,
                  [event |-> "Leave",
                   sent |-> channel_key.some /\ Len(vcCmds) < VoiceCmdCap])
    /\ vcInCall' = FALSE
    /\ vcIsMuted' = FALSE
    /\ vcCur' = 0
    /\ vcLast' = [op |-> "end_call"]
    /\ UNCHANGED <<vcCalls, vcCapture, vcFrames>>

\* toggle_mute: the flag is flipped and the Mute or Unmute event published.
ToggleMute(channel) ==
    /\ Len(vcDone) < MaxVoiceOps
    /\ vcInCall
    /\ LET new_muted == ~vcIsMuted
           channel_key == ChannelKeyOf(channel)
           event_type == IF new_muted THEN "Mute" ELSE "Unmute"
       IN  /\ vcIsMuted' = new_muted
           /\ vcTask' = [vcTask EXCEPT ![vcCur].muted = new_muted]
           /\ vcCmds' = IF channel_key.some
                          THEN PublishWireMessage(vcCmds, channel, channel_key.value,
                                                  VoiceEvent(channel, event_type))
                          ELSE vcCmds
           /\ vcDone' = Append(vcDone,
                  [event |-> event_type,
                   sent |-> channel_key.some /\ Len(vcCmds) < VoiceCmdCap])
    /\ vcLast' = [op |-> "toggle_mute"]
    /\ UNCHANGED <<vcInCall, vcCur, vcCalls, vcCapture, vcFrames>>

\* A full queue that lets go of its oldest entry to take the new one.
FrameSendEvict(queue, cap, frame) ==
    IF Len(queue) < cap THEN Append(queue, frame) ELSE Append(Tail(queue), frame)

\* try_send on a frame queue: the frame is appended when there is room, and
\* is dropped when the queue is full.
FrameTrySend(queue, cap, frame) ==
    IF Len(queue) < cap THEN Append(queue, frame) ELSE queue

\* The input callback of start_capture: a frame of audio, or of silence when
\* muted, goes to the capture queue if there is room.
CaptureFrame(i) ==
    /\ vcTask[i].active
    /\ vcFrames < MaxVoiceFrames
    /\ vcFrames' = vcFrames + 1
    /\ vcCapture' = [vcCapture EXCEPT ![i] =
           FrameTrySend(@, CaptureCap,
                        [n |-> vcFrames + 1,
                         sound |-> IF vcTask[i].muted THEN "silence" ELSE "audio"])]
    /\ vcLast' = [op |-> "capture", call |-> i, n |-> vcFrames + 1,
                  before |-> vcCapture[i]]
    /\ UNCHANGED <<vcInCall, vcIsMuted, vcCur, vcCalls, vcTask, vcCmds, vcDone>>

\* The sender task gets a frame from capture_rx.recv(): it skips the frame
\* when muted, otherwise builds and encrypts the VoiceFrame and starts to send
\* it.  (The u32 sequence cannot wrap within MaxVoiceFrames frames.)
SenderRecv(i, channel) ==
    /\ vcTask[i].pc = "recv"
    /\ vcCapture[i] # <<>>
    /\ LET frame == Head(vcCapture[i])
           t == vcTask[i]
       IN  /\ vcTask' = [vcTask EXCEPT ![i] =
                  IF SenderMuted(i)
                    THEN [t EXCEPT !.pc = LoopHead(t.active), !.last_skipped = frame.n]
                    ELSE [t EXCEPT !.pc = "send",
                                   !.sequence = t.sequence + 1,
                                   !.pending =
                                       Queued("frame", i, frame.n, t.muted,
                                           PublishMessage(ToTopic(channel),
                                               Encrypt(ChannelKeyOf(channel).value,
                                                   ToBytes(VoiceFrame(channel, t.sequence,
                                                                      frame)))))]]
           /\ vcLast' = [op |-> "recv", call |-> i, muted |-> t.muted, n |-> frame.n]
    /\ vcCapture' = [vcCapture EXCEPT ![i] = Tail(@)]
    /\ UNCHANGED <<vcInCall, vcIsMuted, vcCur, vcCalls, vcFrames, vcCmds, vcDone>>

\* sender_cmd_tx.send(..).await completes once the queue has room.
SenderSend(i) ==
    /\ vcTask[i].pc = "send"
    /\ Len(vcCmds) < VoiceCmdCap
    /\ vcCmds' = Append(vcCmds, vcTask[i].pending)
    /\ vcTask' = [vcTask EXCEPT ![i].pc = LoopHead(vcTask[i].active),
                                ![i].pending = NoFrame]
    /\ vcLast' = [op |-> "send", call |-> i, muted |-> vcTask[i].muted,
                  n |-> vcTask[i].pending.n]
    /\ UNCHANGED <<vcInCall, vcIsMuted, vcCur, vcCalls, vcCapture, vcFrames, vcDone>>

\* The 100 ms timeout of recv elapses and the loop condition is false.
SenderTimeout(i) ==
    /\ vcTask[i].pc = "recv"
    /\ vcCapture[i] = <<>>
    /\ ~vcTask[i].active
    /\ vcTask' = [vcTask EXCEPT ![i].pc = "ended"]
    /\ vcLast' = [op |-> "timeout", call |-> i]
    /\ UNCHANGED <<vcInCall, vcIsMuted, vcCur, vcCalls, vcCapture, vcFrames, vcCmds,
                   vcDone>>

\* The overlay loop takes the next command from the queue.
OverlayTakes ==
    /\ vcCmds # <<>>
    /\ vcCmds' = Tail(vcCmds)
    /\ vcLast' = [op |-> "overlay"]
    /\ UNCHANGED <<vcInCall, vcIsMuted, vcCur, vcCalls, vcTask, vcCapture, vcFrames,
                   vcDone>>

\* Capacity of the playback queue (50 in start_call).
PlaybackCap == 2
\* Voice frames that come in from peers in one behaviour.
MaxHeard == 3

PlaybackInit ==
    /\ vcChecked = 0
    /\ vcPlayback = [i \in 1..MaxCalls |-> <<>>]
    /\ vcHeard = 0
    /\ pbLast = [op |-> "none"]

\* handle_incoming_message on a VoiceFrame: a frame of the local identity is
\* skipped; otherwise the samples go to voice_playback_tx, which is set
\* while a call is on.
IncomingVoiceFrame(sender) ==
    /\ vcHeard < MaxHeard
    /\ vcHeard' = vcHeard + 1
    /\ IF sender # OwnPubkey /\ vcInCall
         THEN /\ vcPlayback' = [vcPlayback EXCEPT ![vcCur] =
                      FrameTrySend(@, PlaybackCap, [n |-> vcHeard + 1, sound |-> "audio"])]
              /\ pbLast' = [op |-> "voice_frame", call |-> vcCur, n |-> vcHeard + 1,
                            before |-> vcPlayback[vcCur]]
         ELSE /\ pbLast' = [op |-> "skipped"]
              /\ UNCHANGED vcPlayback

\* The task of start_playback that moves a frame from frame_rx to the
\* output callback's queue while the engine is active.
PlaybackRecv(i) ==
    /\ vcTask[i].active
    /\ vcPlayback[i] # <<>>
    /\ vcPlayback' = [vcPlayback EXCEPT ![i] = Tail(@)]
    /\ pbLast' = [op |-> "playback"]
    /\ UNCHANGED vcHeard

VoiceChannel == "c1"

SenderStep(i) ==
    \/ SenderRecv(i, VoiceChannel) /\ UNCHANGED <<brVars, ccVars, suVars, pbVars, smVars>>
    \/ SenderSend(i) /\ UNCHANGED <<brVars, ccVars, suVars, pbVars, smVars>>
    \/ SenderTimeout(i) /\ UNCHANGED <<brVars, ccVars, suVars, pbVars, smVars>>

VcNext ==
    \/ StoreChannelKey(VoiceChannel, "k1") /\ SrvAlone
            /\ UNCHANGED <<ivVars, vcVars, ccVars, suVars, pbVars, smVars>>
    \/ StartCall(VoiceChannel) /\ VcAlone
    \/ EndCall(VoiceChannel) /\ VcAlone
    \/ ToggleMute(VoiceChannel) /\ VcAlone
    \/ \E i \in 1..MaxCalls : CaptureFrame(i) /\ VcAlone
    \/ \E i \in 1..MaxCalls : SenderRecv(i, VoiceChannel) /\ VcAlone
    \/ \E i \in 1..MaxCalls : SenderSend(i) /\ VcAlone
    \/ \E i \in 1..MaxCalls : SenderTimeout(i) /\ VcAlone
    \/ OverlayTakes /\ VcAlone

-----------------------------------------------------------------------------
(* Messaging and file commands: liberte-client/src/commands/messaging.rs,  *)
(* files.rs                                                                *)

\* Commands (send_message, send_file) in one behaviour.
MaxSends == 3
\* Capacity of the overlay command queue (256 in swarm.rs).
SendCmdCap == 2

\* NONCE_SIZE, and the Poly1305 tag crypto::encrypt appends.
NonceSize == 24
TagSize == 16
\* MAX_FILE_SIZE
MaxFileSize == 50 * 1024 * 1024

\* Plain bytes of a given length (a message body, the content of a file).
Bytes(len) == [kind |-> "plain", len |-> len]
\* The bodies the UI passes to send_message.
Contents == {Bytes(1), Bytes(MaxMessageSize)}

\* The files send_file is pointed at: the name and, when the file can be
\* read, its content.
NoFile == [file_name |-> <<"g", "o", "n", "e">>, readable |-> FALSE, data |-> Bytes(0)]
Files ==
    {NoFile,
     [file_name |-> <<"a", ".", "t", "x", "t">>, readable |-> TRUE, data |-> Bytes(10)],
     [file_name |-> <<"b", ".", "i", "s", "o">>, readable |-> TRUE,
      data |-> Bytes(MaxFileSize + 1)]}

\* WireMessage::FileOffer
FileOffer(sender, channel, file_id, file) ==
    [variant |-> "FileOffer", sender |-> sender, channel_id |-> channel,
     file_id |-> file_id, file_name |-> file.file_name, file_size |-> file.data.len,
     file_hash |-> <<"blake3", file.data>>]

\* The length of a byte string: crypto::encrypt returns the nonce, the
\* ciphertext and the tag; bincode writes a ChatMessage as the 4-byte variant
\* tag, the 32-byte sender, the 8-byte length and the bytes of
\* encrypted_content (and the channel id, timestamp and message id, which add
\* a fixed number of bytes on top of this), a FileOffer as the tag, the
\* sender, the length and bytes of file_name, the 8-byte size and the
\* 32-byte hash.
RECURSIVE DataLen(_)
DataLen(data) ==
    CASE data.kind = "plain" -> data.len
      [] data.kind = "sealed" -> NonceSize + DataLen(data.inner) + TagSize
      [] data.kind = "bincode" ->
            IF data.msg.variant = "ChatMessage"
              THEN 4 + 32 + 8 + DataLen(data.msg.encrypted_content)
              ELSE 4 + 32 + 8 + Len(data.msg.file_name) + 8 + 32
      [] OTHER -> 0

\* Uuid::new_v4: an id no earlier call returned.
NewV4 == <<"n", smIds + 1>>

\* The texts the UI passes as channel_id and as channel_key_hex.
ChannelIdTexts == {ChannelText(c) : c \in ChannelIds} \cup {<<"z">>}
KeyHexTexts == {HexEncode(k) : k \in ChannelKeys} \cup {<<"hex">>}

Err(why) == [ok |-> FALSE, why |-> why]
Ok(value) == [ok |-> TRUE, value |-> value]

SendInit ==
    /\ smIdentity = FALSE
    /\ smSwarm = FALSE
    /\ smCmds = <<>>
    /\ smBlobs = <<>>
    /\ smIds = 0
    /\ smLast = [op |-> "none"]

\* create_identity / load_identity, and start_swarm_and_bridge storing the
\* command sender in the application state.
LoadIdentity ==
    /\ ~smIdentity
    /\ smIdentity' = TRUE
    /\ smLast' = [op |-> "load_identity"]
    /\ UNCHANGED <<smSwarm, smCmds, smBlobs, smIds, brVars>>
StartSwarm ==
    /\ smIdentity /\ ~smSwarm
    /\ smSwarm' = TRUE
    /\ smLast' = [op |-> "start_swarm"]
    /\ UNCHANGED <<smIdentity, smCmds, smBlobs, smIds, brVars>>

\* A command that returns before it has changed anything.
SmReturns(op, result) ==
    /\ smLast' = [op |-> op, result |-> result, published |-> FALSE]
    /\ UNCHANGED <<smIdentity, smSwarm, smCmds, smBlobs, smIds, brVars>>

\* send_message. `cmd_tx.send(..).await` completes when the queue has a free
\* slot; the command is taken here when it does.
SendMessage(channel_id, content, channel_key_hex) ==
    /\ smIds < MaxSends
    /\ LET channel_uuid == UuidParseStr(channel_id)
           channel_key == HexDecode32(channel_key_hex)
       IN
       IF ~channel_uuid.some THEN SmReturns("send_message", Err("Invalid channel_id"))
       ELSE IF ~channel_key.some THEN SmReturns("send_message", Err("Invalid channel key"))
       ELSE IF ~smIdentity THEN SmReturns("send_message", Err("No identity loaded"))
       ELSE IF ~smSwarm THEN SmReturns("send_message", Err("Swarm not started"))
       ELSE
         LET encrypted == Encrypt(channel_key.value, content)
             message_id == NewV4
             wire_bytes == ToBytes(ChatMessage(OwnPubkey, message_id, encrypted))
             ins == InsertMessage(brMessages,
                                  Message(message_id, channel_uuid.value, OwnPubkey,
                                          encrypted))
         IN  /\ Len(smCmds) < SendCmdCap
             /\ smCmds' = Append(smCmds,
                                 PublishMessage(ToTopic(channel_uuid.value), wire_bytes))
             /\ smIds' = smIds + 1
             /\ brMessages' = ins.rows
             /\ smLast' = [op |-> "send_message",
                           result |-> IF ins.ok THEN Ok(message_id)
                                      ELSE Err("Failed to store message"),
                           published |-> TRUE]
             /\ UNCHANGED <<smIdentity, smSwarm, smBlobs, brKeys, brEvents, brLast>>

\* send_file
SendFile(channel_id, file) ==
    /\ smIds < MaxSends
    /\ LET channel_uuid == UuidParseStr(channel_id) IN
       IF ~channel_uuid.some THEN SmReturns("send_file", Err("Invalid channel_id"))
       ELSE IF ~file.readable THEN SmReturns("send_file", Err("Failed to read file"))
       ELSE IF file.data.len > MaxFileSize
         THEN SmReturns("send_file", Err("File too large"))
       ELSE IF ~smIdentity THEN SmReturns("send_file", Err("No identity loaded"))
       ELSE IF ~smSwarm THEN SmReturns("send_file", Err("Swarm not started"))
       ELSE
         LET file_id == NewV4
             offer == FileOffer(OwnPubkey, channel_uuid.value, file_id, file)
             wire_bytes == ToBytes(offer)
         IN  /\ Len(smCmds) < SendCmdCap
             /\ smCmds' = Append(smCmds,
                                 PublishMessage(ToTopic(channel_uuid.value), wire_bytes))
             /\ smIds' = smIds + 1
             /\ smBlobs' = Append(smBlobs,
                                  [id |-> file_id, file_name |-> file.file_name,
                                   file_size |-> file.data.len, is_uploaded |-> FALSE])
             /\ smLast' = [op |-> "send_file", result |-> Ok(file_id),
                           published |-> TRUE]
             /\ UNCHANGED <<smIdentity, smSwarm, brVars>>

\* The overlay loop takes the next command from the queue.
SmOverlayTakes ==
    /\ smCmds # <<>>
    /\ smCmds' = Tail(smCmds)
    /\ smLast' = [op |-> "overlay"]
    /\ UNCHANGED <<smIdentity, smSwarm, smBlobs, smIds, brVars>>

SmNext ==
    \/ LoadIdentity /\ SmAlone
    \/ StartSwarm /\ SmAlone
    \/ \E c \in ChannelIds : StoreChannelKey(c, "k1") /\ SmAlone /\ UNCHANGED smVars
    \/ \E c \in ChannelIdTexts, b \in Contents, k \in KeyHexTexts :
           SendMessage(c, b, k) /\ SmAlone
    \/ \E c \in ChannelIdTexts, f \in Files : SendFile(c, f) /\ SmAlone
    \/ SmOverlayTakes /\ SmAlone

-----------------------------------------------------------------------------
(* Start-up of the overlay: liberte-client/src/swarm_bridge.rs             *)

\* The channels with a stored key when the client starts.
StoredChannels == 3

\* The topic of the k-th stored channel.
StoredTopic(k) == ChannelPrefix \o <<"c", k>>

\* start_swarm_and_bridge after spawn_swarm has returned, with k stored
\* channels to subscribe to.
StartupInit(k) ==
    /\ suPc = "subscribe"
    /\ suLeft = k
\* start_swarm_and_bridge has returned.
Started ==
    /\ suPc = "spawned"
    /\ suLeft = 0

\* subscribe_all_channels: cmd_tx.send(SubscribeTopic(topic)).await for the
\* next stored channel; the send completes when the command queue has room.
SubscribeChannel ==
    /\ suPc = "subscribe"
    /\ suLeft > 0
    /\ Len(ovCmds) < CmdCap
    /\ ovCmds' = Append(ovCmds, SubscribeTopic(StoredTopic(suLeft)))
    /\ suLeft' = suLeft - 1
    /\ UNCHANGED <<suPc, ovNotifs, ovLoop, ovTracker, ovConns, ovSubs, ovReplies,
                   ovTxOpen, ovRxOpen, ovInputs, ovEmitted, ovOutcome>>

\* subscribe_all_channels has returned: the notification loop is spawned.
SpawnNotificationLoop ==
    /\ suPc = "subscribe"
    /\ suLeft = 0
    /\ suPc' = "spawned"
    /\ UNCHANGED <<suLeft, ovVars>>

\* notification_loop: notif_rx.recv().await, once the loop is spawned.
NotificationLoopRecv ==
    /\ suPc = "spawned"
    /\ RecvNotification
    /\ UNCHANGED suVars

\* What only the overlay loop does leaves the start-up where it is.
SuAlone ==
    UNCHANGED <<sfuVars, pmVars, swVars, rlVars, apVars, ivVars, brVars, vcVars,
                ccVars, pbVars, smVars>>
StNext ==
    \/ SubscribeChannel /\ SuAlone
    \/ SpawnNotificationLoop /\ SuAlone
    \/ NotificationLoopRecv /\ SuAlone
    \/ HandleCommand /\ OvAlone
    \/ \E p \in OvPeers, a \in Addrs : ConnectionEstablished(p, a) /\ OvAlone
    \/ \E src \in Sources, t \in Topics, d \in Receivable :
           GossipsubMessage(src, t, d) /\ OvAlone
    \/ SendResume /\ OvAlone

\* Calls whose start_call invocations run concurrently.
CcNext ==
    \/ StoreChannelKey(VoiceChannel, "k1") /\ SrvAlone
            /\ UNCHANGED <<ivVars, vcVars, ccVars, suVars, pbVars, smVars>>
    \/ StartCallCheck(VoiceChannel) /\ CcAlone
    \/ StartCallCommit(VoiceChannel) /\ CcAlone
    \/ EndCall(VoiceChannel) /\ VcAlone
    \/ \E i \in 1..MaxCalls : CaptureFrame(i) /\ VcAlone
    \/ \E i \in 1..MaxCalls : SenderRecv(i, VoiceChannel) /\ VcAlone
    \/ \E i \in 1..MaxCalls : SenderSend(i) /\ VcAlone
    \/ \E i \in 1..MaxCalls : SenderTimeout(i) /\ VcAlone
    \/ OverlayTakes /\ VcAlone

\* A call with its capture and playback queues: the callback and the sender
\* task on one side, the bridge and the playback task on the other.
AqNext ==
    \/ StoreChannelKey(VoiceChannel, "k1") /\ SrvAlone
            /\ UNCHANGED <<ivVars, vcVars, ccVars, suVars, pbVars, smVars>>
    \/ StartCall(VoiceChannel) /\ VcAlone
    \/ EndCall(VoiceChannel) /\ VcAlone
    \/ \E i \in 1..MaxCalls : CaptureFrame(i) /\ VcAlone
    \/ \E i \in 1..MaxCalls : SenderRecv(i, VoiceChannel) /\ VcAlone
    \/ \E i \in 1..MaxCalls : SenderSend(i) /\ VcAlone
    \/ OverlayTakes /\ VcAlone
    \/ \E sender \in {OwnPubkey, "peer"} : IncomingVoiceFrame(sender) /\ PbAlone
    \/ \E i \in 1..MaxCalls : PlaybackRecv(i) /\ PbAlone

\* The client side before anything happened.
ClientInitBut == InviteInit /\ BridgeInit /\ VoiceInit /\ PlaybackInit /\ SendInit
ClientInit == ClientInitBut /\ Started

-----------------------------------------------------------------------------
\* The server and the overlay node after start-up; main.rs builds the limiter
\* with RateLimiter::default().
Init ==
    /\ SfuInit /\ PmInit /\ SweepInit /\ RlInit(DefaultConfig.rate, DefaultConfig.capacity)
    /\ OvInit /\ ApiInit /\ ClientInit

\* The same, with the limiter built from any of the configurations.
InitRate ==
    /\ SfuInit /\ PmInit /\ SweepInit /\ (\E c \in Configs : RlInit(c.rate, c.capacity))
    /\ OvInit /\ ApiInit /\ ClientInit

\* The same, with the admin token read from any of the environments.
InitAdmin ==
    /\ SfuInit /\ PmInit /\ SweepInit /\ RlInit(DefaultConfig.rate, DefaultConfig.capacity)
    /\ OvInit /\ ClientInit
    /\ \E env \in AdminEnvs : apAdminToken = AdminTokenFromEnv(env)
    /\ apLast = NoRequest
    /\ BlobInit(DefaultBase)

\* The same, with the blob store built on any of the blob directories.
InitBlob ==
    /\ SfuInit /\ PmInit /\ SweepInit /\ RlInit(DefaultConfig.rate, DefaultConfig.capacity)
    /\ OvInit /\ ClientInit
    /\ apAdminToken = None
    /\ apLast = NoRequest
    /\ \E base \in Bases : BlobInit(base)

SpecSfu == Init /\ [][SfuNext]_vars
SpecSfuRooms == Init /\ [][SfuRoomsNext]_vars
SpecPremium == Init /\ [][PmNext]_vars
SpecSweep == Init /\ [][SwNext]_vars
SpecRate == InitRate /\ [][RlNext]_vars
\* The limiter of the unit tests with requests from every IP.
InitRateIps == InitRate /\ rlCapacity = TestBurst
SpecRateIps == InitRateIps /\ [][RlIpsNext]_vars
SpecAdmin == InitAdmin /\ [][AdNext]_vars
SpecBlob == InitBlob /\ [][BsNext]_vars
SpecBackup == InitBlob /\ [][BkNext]_vars
SpecInvite == Init /\ [][IvNext]_vars
SpecBridge == Init /\ [][BrNext]_vars
SpecVoice == Init /\ [][VcNext]_vars
SpecSend == Init /\ [][SmNext]_vars
SpecAudio == Init /\ [][AqNext]_vars
SpecCalls == Init /\ [][CcNext]_vars
\* The client starting its overlay with any number of stored channels.
InitStartup ==
    /\ SfuInit /\ PmInit /\ SweepInit /\ RlInit(DefaultConfig.rate, DefaultConfig.capacity)
    /\ OvInit /\ ApiInit /\ ClientInitBut
    /\ \E k \in 0..StoredChannels : StartupInit(k)
SpecStartup == InitStartup /\ [][StNext]_vars
\* The runtime runs a sender task that can take a step; nothing obliges the
\* overlay loop to take commands.
SpecVoiceFair ==
    SpecVoice /\ \A i \in 1..MaxCalls : WF_vars(SenderStep(i) /\ SrvAlone /\ UNCHANGED ivVars)

\* C4: when a bucket of capacity C is full at an instant, the first C checks
\* made at that instant are admitted and the (C+1)-th is rejected.
C4_FullBucketAdmitsExactlyCapacity ==
    \A ip \in Ips :
        (rlBurst[ip].n > 0 /\ rlBurst[ip].start = rlCapacity * Scale)
            => rlBurst[ip].ok = Min(rlBurst[ip].n, rlCapacity)

C4_Witness ==
    \E ip \in Ips :
        /\ rlBurst[ip].n = rlCapacity + 1
        /\ rlBurst[ip].start = rlCapacity * Scale
        /\ rlBurst[ip].ok = rlCapacity

\* C5: a bucket never holds more than C tokens; a bucket that was emptied and
\* then idle for t seconds holds min(C, rate * t) tokens at its next check,
\* and that many whole requests made at that instant are admitted, no more;
\* with rate 10 and burst 30, one idle second after exhaustion admits ten
\* more requests.
C5_RefillIsCappedAndProportional ==
    \A ip \in Ips :
        /\ rlBuckets[ip] # NoBucket => rlBuckets[ip].tokens <= rlCapacity * Scale
        /\ (rlBurst[ip].n > 0 /\ rlBurst[ip].emptied) =>
              /\ rlBurst[ip].start * TicksPerSec =
                    Min(rlCapacity * Scale * TicksPerSec,
                        rlRate * rlBurst[ip].idle * Scale)
              /\ rlBurst[ip].ok = Min(rlBurst[ip].n, rlBurst[ip].start \div Scale)
              /\ (/\ rlRate = DefaultRate /\ rlCapacity = DefaultBurst
                  /\ rlBurst[ip].idle = TicksPerSec)
                     => rlBurst[ip].ok = Min(rlBurst[ip].n, DefaultRate)

C5_Witness ==
    \E ip \in Ips :
        /\ rlRate = DefaultRate /\ rlCapacity = DefaultBurst
        /\ rlBurst[ip].n = DefaultRate + 1
        /\ rlBurst[ip].emptied
        /\ rlBurst[ip].idle = TicksPerSec
        /\ rlBurst[ip].ok = DefaultRate

SpecOverlay == Init /\ [][OvNext]_vars

\* C9: no handler of the overlay loop suspends: the loop is never waiting
\* inside a handler, and whenever a command is queued and the loop has not
\* terminated, the loop can take it, full notification queue or not.
C9_HandlersNeverSuspend ==
    /\ ovLoop.pc # "send"
    /\ (ovLoop # Terminated /\ ovCmds # <<>>) => ENABLED HandleCommand

\* C10: for every peer the PeerConnected and PeerDisconnected notifications
\* alternate strictly, beginning with PeerConnected, however many connections
\* the peer has at once.
C10_ConnectionNotificationsAlternate ==
    \A p \in OvPeers : \A i \in DOMAIN ovEmitted[p] :
        ovEmitted[p][i] = IF i % 2 = 1 THEN "PeerConnected" ELSE "PeerDisconnected"

\* The remote peers that have at least one established connection.
Connected == {p \in OvPeers : ovConns[p] # {}}

\* The step in which the loop handles the establishment of connection a of p.
Establishes(p, a) == a \notin ovConns[p] /\ ovConns'[p] = ovConns[p] \cup {a}

\* C11: when a connection to a peer is established, the tracker entry of the
\* peer has that connection's remote multiaddr as address, and mode relayed
\* exactly when the multiaddr has a p2p-circuit component, direct otherwise.
C11_TrackerModeFollowsAddress ==
    [][\A p \in OvPeers, a \in Addrs : Establishes(p, a) =>
          /\ ovTracker'[p] # NoConn
          /\ ovTracker'[p].address = a
          /\ ovTracker'[p].mode =
                IF "p2p-circuit" \in {a[i] : i \in DOMAIN a}
                  THEN "Relayed" ELSE "Direct"
      ]_vars

\* C11 witness: one peer is tracked as relayed over a circuit address while
\* another is tracked as direct.
C11_Witness ==
    \E p, q \in OvPeers :
        /\ ConnectionMode(ovTracker, p) = "Relayed"
        /\ IsRelayed(ovTracker[p].address)
        /\ ConnectionMode(ovTracker, q) = "Direct"
        /\ ~IsRelayed(ovTracker[q].address)

\* C12: once the loop has processed a successful hole-punch event for a peer
\* that was tracked as relayed, the tracker entry of the peer has mode direct
\* and a direct address.
C12_HolePunchMakesEntryDirect ==
    (ovOutcome.step = "Dcutr" /\ ovOutcome.ok /\ ovOutcome.relayed) =>
        /\ ConnectionMode(ovTracker, ovOutcome.peer) = "Direct"
        /\ ~IsRelayed(ovTracker[ovOutcome.peer].address)

\* The step in which the loop handles a GetPeers.
HandlesGetPeers ==
    /\ ovCmds # <<>>
    /\ Head(ovCmds).cmd = "GetPeers"
    /\ ovCmds' = Tail(ovCmds)

\* C13: the tracker lists exactly the peers that have an established
\* connection, at every point of the loop, and a GetPeers reply is that set
\* as it is when the command is handled.
C13_GetPeersMatchesConnections ==
    /\ [](ConnectedPeers(ovTracker) = Connected)
    /\ [][HandlesGetPeers =>
            ovReplies'[Head(ovCmds).reply] = [kind |-> "peers", peers |-> Connected]
      ]_vars

\* C13 witness: a caller has been told of a connected peer that has since
\* closed its last connection.
C13_Witness ==
    \E c \in Callers : /\ ovReplies[c] # NoReply
                       /\ ovReplies[c].peers # {}
                       /\ Connected = {}

\* C14: when the loop has exited, no command is left unhandled in the
\* command queue: Shutdown handles what is still waiting before the exit.
C14_ShutdownDrainsQueue ==
    ovLoop = Terminated => ovCmds = <<>>

\* The step in which the loop handles a Dial or a PublishMessage.
HandlesDialOrPublish ==
    /\ ovCmds # <<>>
    /\ Head(ovCmds).cmd \in {"Dial", "PublishMessage"}
    /\ ovCmds' = Tail(ovCmds)

StoresVerified(user) ==
    \E h \in Handlers : /\ VerifyStore(h)
                        /\ pmCall[h].token.user_pubkey = user
                        /\ pmCall[h].valid

\* C16: admin_grant(u) leaves an entry for u that is valid until 100 years
\* (36500 days) from now, with which is_premium_cached(u) is true;
\* admin_revoke(u) leaves no entry for u, with which is_premium_cached(u) is
\* false; and is_premium_cached(u) turns from false to true only by
\* admin_grant(u) or by a successful verification of a token naming u.
C16_GrantAndRevokeSetCachedStatus ==
    [][\A u \in Users :
          /\ AdminGrant(u) =>
                /\ pmCache'[u] # NoEntry
                /\ pmCache'[u].valid
                /\ pmCache'[u].valid_until = pmNow' + 36500
                /\ IsPremiumCached(u)'
          /\ AdminRevoke(u) =>
                /\ pmCache'[u] = NoEntry
                /\ ~IsPremiumCached(u)'
          /\ (~IsPremiumCached(u) /\ IsPremiumCached(u)') =>
                AdminGrant(u) \/ StoresVerified(u)
      ]_vars

\* C16 witness: on a later day, one user holds a granted entry and is premium
\* while the other has no entry and is not.
C16_Witness ==
    \E u, v \in Users :
        /\ pmNow > 0
        /\ pmCache[u] # NoEntry
        /\ pmCache[u].verified_at > 0
        /\ pmCache[u].valid_until = pmCache[u].verified_at + GrantDays
        /\ IsPremiumCached(u)
        /\ pmCache[v] = NoEntry
        /\ ~IsPremiumCached(v)

\* The token an Authorization header value presents: the value without its
\* Bearer scheme.
Presented(value) ==
    IF Len(value) >= 7 /\ SubSeq(value, 1, 7) = <<"B", "e", "a", "r", "e", "r", " ">>
      THEN SubSeq(value, 8, Len(value))
      ELSE value

\* A request is unauthorised when no admin token is configured, when it has
\* no Authorization header, or when the token it presents is not the
\* configured one.
Unauthorised(headers) ==
    \/ ~apAdminToken.some
    \/ ~headers.some
    \/ Presented(headers.value) # apAdminToken.value

AdminEndpoints == {"admin_status", "admin_grant_premium", "admin_revoke_premium"}

Exactly64Hex(s) ==
    /\ Len(s) = 64
    /\ \A i \in 1..Len(s) :
          s[i] \in {"0", "1", "2", "3", "4", "5", "6", "7", "8", "9",
                    "a", "b", "c", "d", "e", "f", "A", "B", "C", "D", "E", "F"}

\* C18: a backup upload or download whose user key is not exactly 64
\* hexadecimal characters is answered BadRequest (400) and has touched no
\* directory and no file.
C18_BadKeyRejectedBeforeIo ==
    (/\ apLast.endpoint \in {"backup_sync_upload", "backup_sync_download"}
     /\ ~Exactly64Hex(apLast.user_pubkey_hex))
        => (apLast.status = "BadRequest" /\ ~apLast.io)

\* A text with a '/', a '\' or a "..".
Traversing(s) ==
    \/ \E i \in 1..Len(s) : s[i] = "/" \/ s[i] = "\\"
    \/ \E i \in 1..(Len(s) - 1) : s[i] = "." /\ s[i + 1] = "."

\* A path inside the configured blob directory: below it, by names only.
BlobRoot == Abs(apBase)
Inside(path) ==
    /\ PathStartsWith(path, BlobRoot)
    /\ \A i \in (Len(BlobRoot) + 1)..Len(path) :
          /\ path[i] # <<".">> /\ path[i] # <<".", ".">> /\ path[i] # <<>>
          /\ \A j \in 1..Len(path[i]) : path[i][j] # "/"

\* C19: safe_subpath called with a subdir or a filename that has a '/', a
\* '\' or a ".." returns an error and has not consulted the file system; and
\* every path safe_subpath, store_blob, get_blob or delete_blob resolves is
\* inside the configured blob directory.
C19_SubpathsStayInsideRoot ==
    /\ (/\ apLast.endpoint = "safe_subpath"
        /\ (Traversing(apLast.subdir) \/ Traversing(apLast.filename)))
          => (apLast.status = "BadRequest" /\ ~apLast.io)
    /\ (/\ apLast.endpoint \in {"safe_subpath", "store_blob", "get_blob", "delete_blob"}
        /\ apLast.path.ok)
          => Inside(apLast.path.path)

\* C19 witness: safe_subpath has refused a subdir of "..".
C19_Witness ==
    /\ apLast.endpoint = "safe_subpath"
    /\ apLast.subdir = <<".", ".">>
    /\ ~Traversing(apLast.filename)
    /\ apLast.status = "BadRequest"

\* C20: store_blob of a byte string that is not empty and not over the size
\* limit returns an id under which get_blob returns that byte string, and
\* get_blob keeps returning the bytes stored under an id until the id is
\* deleted.
C20_StoredBlobIsReadBack ==
    /\ (/\ apLast.endpoint = "store_blob"
        /\ Len(apLast.data) > 0
        /\ Len(apLast.data) <= MaxBlobSize)
          => /\ apLast.status = "Ok"
             /\ GetBlobResult(apLast.id) = [ok |-> TRUE, data |-> apLast.data]
    /\ \A id \in 1..MaxBlobs :
          apBlobs[id].stored =>
              GetBlobResult(id) = [ok |-> TRUE, data |-> apBlobs[id].data]

\* C21: delete_blob of an id under which no blob is stored succeeds and
\* changes nothing.
C21_DeleteIsIdempotent ==
    [][\A id \in 1..MaxBlobs :
          (DeleteBlob(id) /\ ~apBlobs[id].stored) =>
              (apLast'.status = "Ok" /\ fsFiles' = fsFiles /\ fsDirs' = fsDirs)
      ]_vars

\* C22: blob_upload answers 400 for an empty blob and 413 for a blob over
\* the size limit, in both cases without a file written or an id returned,
\* and it answers 5xx only when a file system call failed.
C22_UploadStatusCodes ==
    apLast.endpoint = "blob_upload" =>
        /\ apLast.data = <<>> =>
              (IntoResponse(apLast.status) = 400 /\ apLast.id = 0 /\ ~apLast.io)
        /\ Len(apLast.data) > MaxBlobSize =>
              (IntoResponse(apLast.status) = 413 /\ apLast.id = 0 /\ ~apLast.io)
        /\ IntoResponse(apLast.status) >= 500 => apLast.io

\* The token in hand is the one create returned.
Unaltered == ivToken # NoToken /\ ivToken = ivSigned
Altered == ivToken # NoToken /\ ivToken.payload # ivSigned.payload

\* C23: a token from InviteToken::create that was not altered verifies at
\* every instant before its expires_at, which is created_at plus five
\* minutes, and fails with Expired, not InvalidSignature, at every instant
\* after it.
C23_UnalteredTokenVerifiesUntilExpiry ==
    (Unaltered /\ ivLast # NoResult) =>
        /\ ivToken.payload.expires_at = ivToken.payload.created_at + 5 * 60
        /\ ivNow < ivToken.payload.expires_at => ivLast = "Ok"
        /\ ivNow > ivToken.payload.expires_at => ivLast = "Expired"

C23_Witness ==
    /\ Unaltered
    /\ ivNow > ivToken.payload.expires_at
    /\ ivLast = "Expired"

\* C24: a token of which any payload field was changed after signing fails
\* verify with InvalidSignature.
C24_AlteredTokenIsInvalidSignature ==
    (Altered /\ ivLast # NoResult) => ivLast = "InvalidSignature"

\* The notification handled names a channel whose key is stored.
HasPrefixOf(topic) == StripPrefix(topic, ChannelPrefix).some
NamesChannel(topic) ==
    HasPrefixOf(topic) /\ UuidParseStr(StripPrefix(topic, ChannelPrefix).value).some
KeyStoredFor(topic) ==
    NamesChannel(topic)
        /\ brKeys[UuidParseStr(StripPrefix(topic, ChannelPrefix).value).value] # NoRow
KeyOf(topic) ==
    HexDecode32(brKeys[UuidParseStr(StripPrefix(topic, ChannelPrefix).value).value]).value
Dropped == brMessages' = brMessages /\ brEvents' = brEvents /\ brLast'.dispatched = NoMsg

\* C25: for every MessageReceived the bridge either dispatches exactly one
\* decoded WireMessage or drops the notification with no store change and
\* no UI event; it drops when the topic does not start with "channel:" or
\* names no valid channel id, when no key is stored for the channel, and
\* when the plain decode and the decrypt-then-decode both fail; the plain
\* decode is tried first and no decode is tried twice.
C25_BridgeDispatchesOneOrDrops ==
    [][brLast'.op = "handle_incoming_message" =>
          LET t == brLast'.topic
              d == brLast'.data
          IN  /\ brLast'.dispatched = NoMsg => Dropped
              /\ ~KeyStoredFor(t) => (Dropped /\ brLast'.tried = <<>>)
              /\ KeyStoredFor(t) =>
                    /\ brLast'.tried # <<>> /\ Head(brLast'.tried) = "from_bytes data"
                    /\ \A i, j \in DOMAIN brLast'.tried :
                          i # j => brLast'.tried[i] # brLast'.tried[j]
                    /\ FromBytes(d).some =>
                          (brLast'.dispatched = FromBytes(d).value
                              /\ brLast'.tried = <<"from_bytes data">>)
                    /\ (~FromBytes(d).some /\ Decrypt(KeyOf(t), d).some
                            /\ FromBytes(Decrypt(KeyOf(t), d).value).some) =>
                          brLast'.dispatched = FromBytes(Decrypt(KeyOf(t), d).value).value
                    /\ (~FromBytes(d).some
                            /\ ~(Decrypt(KeyOf(t), d).some
                                    /\ FromBytes(Decrypt(KeyOf(t), d).value).some)) =>
                          Dropped
              /\ brLast'.dispatched # NoMsg =>
                    /\ brLast'.dispatched \in WireMessages
                    /\ Len(brEvents') <= Len(brEvents) + 1
                    /\ Len(brMessages') <= Len(brMessages) + 1
      ]_vars

C25_Witness ==
    /\ brLast.op = "handle_incoming_message"
    /\ brLast.tried = <<"from_bytes data", "decrypt", "from_bytes plaintext">>
    /\ brLast.dispatched = ChatMessage("peer", "m1", "x")
    /\ Len(brMessages) = 1

\* C26: the local store never holds two messages with the same message_id,
\* and inserting a message whose id is already stored is a successful no-op
\* that leaves the stored message unchanged.
C26_DuplicateInsertIsSuccessfulNoOp ==
    /\ \A i, j \in DOMAIN brMessages : i # j => brMessages[i].id # brMessages[j].id
    /\ (brLast.op = "insert_message" /\ brLast.known) =>
          (brLast.insert = "Ok"
              /\ \E i \in DOMAIN brMessages : brMessages[i].id = brLast.message.id)

Calls == 1..MaxCalls
Running(i) == vcTask[i].pc \in {"recv", "send"}

IsEvent(item) == item.kind = "event"
EventType(item) ==
    FromBytes(Decrypt(ChannelKeyOf(VoiceChannel).value, item.cmd.data).value).value.event_type
QueuedEvents == SelectSeq(vcCmds, IsEvent)

\* C28: every successful start_call publishes a Join event, end_call a
\* Leave, toggle_mute a Mute or Unmute matching the new state; each reaches
\* the overlay command queue, encrypted under the channel key, in call order.
C28_VoiceEventsReachQueue ==
    /\ \A k \in DOMAIN vcDone : vcDone[k].sent
    /\ \A k \in DOMAIN QueuedEvents :
          /\ Decrypt(ChannelKeyOf(VoiceChannel).value, QueuedEvents[k].cmd.data).some
          /\ Len(QueuedEvents) <= Len(vcDone)
          /\ EventType(QueuedEvents[k])
                = vcDone[Len(vcDone) - Len(QueuedEvents) + k].event

\* C29: the voice sender task never waits on the overlay command queue, so
\* after end_call has cleared the active flag the task ends, also when the
\* queue is full and nothing takes commands from it.
C29_SenderEndsAfterEndCall ==
    \A i \in Calls :
        (vcTask[i].pc # "none" /\ ~vcTask[i].active) ~> (vcTask[i].pc = "ended")

\* The bucket check(ip) consumes from: the stored one, or a new one.
BucketOf(ip) ==
    IF rlBuckets[ip] = NoBucket THEN NewBucket(rlCapacity, rlClock) ELSE rlBuckets[ip]

\* C30: the buckets are per IP: an IP seen for the first time starts with a
\* full bucket, and a check for one IP changes neither the token count of
\* another IP nor the outcome of that IP's next check.
C30_BucketsArePerIp ==
    [][\A ip \in Ips :
          Check(ip) =>
              /\ rlBuckets[ip] = NoBucket =>
                    /\ rlBuckets'[ip].tokens = (rlCapacity - 1) * Scale
                    /\ rlBurst'[ip].ok = 1
              /\ \A other \in Ips \ {ip} :
                    /\ rlBuckets'[other] = rlBuckets[other]
                    /\ rlBurst'[other] = rlBurst[other]
                    /\ TryConsume(BucketOf(other)', rlRate', rlCapacity', rlClock')
                          = TryConsume(BucketOf(other), rlRate, rlCapacity, rlClock)
      ]_vars

\* ip1 has exhausted its bucket and was refused; ip2, seen for the first
\* time at the same instant, was admitted.
C30_Witness ==
    /\ rlBuckets["ip1"] # NoBucket /\ rlBuckets["ip1"].tokens < Scale
    /\ rlBurst["ip1"].n > 0 /\ rlBurst["ip1"].n > rlBurst["ip1"].ok
    /\ rlBurst["ip2"].n = 1 /\ rlBurst["ip2"].ok = 1
    /\ rlBuckets["ip2"].tokens = (rlCapacity - 1) * Scale

\* The user's cache entry is the one admin_grant wrote, and is fresh.
Granted(user) ==
    /\ pmCache[user] # NoEntry
    /\ pmCache[user].valid
    /\ pmCache[user].valid_until = pmCache[user].verified_at + GrantDays
    /\ IsPremiumCached(user)

\* C34: once admin_grant(u) has returned, is_premium_cached(u) stays true
\* until admin_revoke(u), whatever verify calls and sweeper runs interleave.
C34_GrantIsStable ==
    [][\A u \in Users : Granted(u) => (IsPremiumCached(u)' \/ AdminRevoke(u))]_vars

\* What is_premium_cached(user) and the cache check of verify for a token of
\* the user answer at time t from a cache.
FreshIn(cache, user, t) == cache[user] # NoEntry /\ IsFresh(cache[user], t)
\* What a verify call made at time t with a token returns from a cache
\* (second part: the verification when the cache does not answer).
VerifyResult(cache, token, t) ==
    FreshIn(cache, token.user_pubkey, t)
        \/ CheckPremiumStatusWithKey(token, ServerPubkey, t)

\* C40: purge_expired removes every entry whose valid_until is earlier than
\* now and keeps every fresh entry as it is; and at every moment each
\* is_premium_cached and verify call, made now or on any later day, answers
\* from the swept cache what it answers from the cache that was never swept.
C40_SweeperIsInvisible ==
    [][/\ PurgeExpired =>
            \A u \in Users :
                /\ (pmCache[u] # NoEntry /\ pmCache[u].valid_until < pmNow)
                      => pmCache'[u] = NoEntry
                /\ FreshIn(pmCache, u, pmNow) => pmCache'[u] = pmCache[u]
       /\ \A t \in pmNow'..MaxDay :
            /\ \A u \in Users : FreshIn(pmCache', u, t) = FreshIn(swShadow', u, t)
            /\ \A token \in SweepTokens :
                 VerifyResult(pmCache', token, t) = VerifyResult(swShadow', token, t)
      ]_vars

\* C40 witness: the sweeper has removed an expired entry, which the unswept
\* cache still holds, while a fresh entry of another user is in both.
C40_Witness ==
    \E u, v \in Users :
        /\ pmCache[u] = NoEntry /\ swShadow[u] # NoEntry
        /\ swShadow[u].valid /\ swShadow[u].valid_until < pmNow
        /\ FreshIn(pmCache, v, pmNow) /\ pmCache[v] = swShadow[v]

\* C35: at most one voice call is active: of concurrent start_call
\* invocations one succeeds, so the only sender task whose flag is set is
\* the task of the call the application state holds, and end_call stops it.
C35_OneCallAtATime ==
    /\ Cardinality({i \in 1..MaxCalls : vcTask[i].active}) <= 1
    /\ \A i \in 1..MaxCalls : vcTask[i].active => (vcInCall /\ vcCur = i)

\* The overlay loop waits for room in the notification queue, and
\* subscribe_all_channels, which must return before the queue's consumer is
\* spawned, waits for room in the command queue.
StartupStuck ==
    /\ ovLoop.pc = "send" /\ Len(ovNotifs) = NotifCap
    /\ suPc = "subscribe" /\ suLeft > 0 /\ Len(ovCmds) = CmdCap

\* C36: overlay start-up cannot deadlock: the overlay loop is never stuck on
\* a full notification queue while the task that will spawn the queue's
\* consumer is stuck on a full command queue.
C36_StartupNeverStuck == ~StartupStuck

\* The start_call and end_call events of the i-th call, as far as they were
\* enqueued (calls follow one another, so the i-th Join and the i-th Leave of
\* the history are those of call i).
EventsOf(event_type) == SelectSeq(vcDone, LAMBDA e : e.event = event_type)
JoinSent(i) == Len(EventsOf("Join")) >= i /\ EventsOf("Join")[i].sent
LeaveSent(i) == Len(EventsOf("Leave")) >= i /\ EventsOf("Leave")[i].sent

\* C37: every VoiceFrame of a call is enqueued after the call's Join event
\* and before its Leave event: once end_call has enqueued Leave, the call's
\* sender task enqueues no further frame.
C37_FramesBetweenJoinAndLeave ==
    [][\A i \in 1..MaxCalls : SenderSend(i) => (JoinSent(i) /\ ~LeaveSent(i))]_vars

\* C38: whenever a peer has an open connection, its tracker entry describes
\* one of the open connections: the entry's address is that of an open
\* connection and its mode is that connection's mode.
C38_TrackerDescribesOpenConnection ==
    \A p \in OvPeers :
        ovConns[p] # {} =>
            /\ ovTracker[p] # NoConn
            /\ ovTracker[p].address \in ovConns[p]
            /\ ConnectionMode(ovTracker, p)
                  = IF IsRelayed(ovTracker[p].address) THEN "Relayed" ELSE "Direct"

\* C39: a new-message event is emitted for an incoming ChatMessage only when
\* the message was inserted into the store by that step, so no message id is
\* surfaced by two new-message events.
C39_EventOnlyForInsertedMessage ==
    [][(/\ Len(brEvents') = Len(brEvents) + 1
        /\ brEvents'[Len(brEvents')].event = "new-message")
          => /\ brLast'.insert = "Ok"
             /\ Len(brMessages') = Len(brMessages) + 1
             /\ brMessages'[Len(brMessages')].id = brEvents'[Len(brEvents')].id
             /\ \A i \in DOMAIN brEvents :
                    brEvents[i].event = "new-message"
                        => brEvents[i].id # brEvents'[Len(brEvents')].id
      ]_vars

\* A step that offers a frame to a full queue: the queue before, the queue
\* after and the frame.
FullCapture ==
    vcLast'.op = "capture" /\ vcLast' # vcLast /\ Len(vcLast'.before) = CaptureCap
FullPlayback ==
    pbLast'.op = "voice_frame" /\ vcHeard' # vcHeard
        /\ Len(pbLast'.before) = PlaybackCap

\* C33: when the capture queue or the playback queue is full and a frame
\* arrives, the oldest queued frame is discarded and the new one enqueued;
\* the producer never blocks.
C33_FullQueueDropsOldest ==
    [][/\ FullCapture =>
            LET i == vcLast'.call IN
            /\ Len(vcCapture'[i]) = CaptureCap
            /\ vcCapture'[i][CaptureCap].n = vcLast'.n
            /\ SubSeq(vcCapture'[i], 1, CaptureCap - 1) = Tail(vcLast'.before)
       /\ FullPlayback =>
            LET i == pbLast'.call IN
            /\ Len(vcPlayback'[i]) = PlaybackCap
            /\ vcPlayback'[i][PlaybackCap].n = pbLast'.n
            /\ SubSeq(vcPlayback'[i], 1, PlaybackCap - 1) = Tail(pbLast'.before)]_vars

\* C31: send_message never puts on the overlay command queue a
\* PublishMessage whose data is longer than MAX_MESSAGE_SIZE (a body that
\* would give a longer envelope is refused before anything is published).
C31_PublishedDataFitsEnvelope ==
    \A i \in DOMAIN smCmds :
        smCmds[i].cmd = "PublishMessage" => DataLen(smCmds[i].data) <= MaxMessageSize

\* The message a published byte string carries, in the clear or sealed.
Carried(data) ==
    IF data.kind = "sealed" THEN FromBytes(data.inner) ELSE FromBytes(data)

\* C32: every FileOffer send_file hands to the overlay is sealed under the
\* key of the channel it is published on.
C32_FileOffersAreEncrypted ==
    \A i \in DOMAIN smCmds :
        LET data == smCmds[i].data
            msg == Carried(data)
        IN  (msg.some /\ msg.value.variant = "FileOffer")
                => /\ data.kind = "sealed"
                   /\ brKeys[msg.value.channel_id] = HexEncode(data.key)

-----------------------------------------------------------------------------
(* Properties of the SFU *)

\* What has been put on the queue of peer p in room r since p joined: the
\* frames p has dequeued, then the frames still buffered.
Delivered(r, p) == received[r][p] \o inbox[r][p]
OnQueue(r, p, f) == \E i \in DOMAIN Delivered(r, p) : Delivered(r, p)[i] = f

InFlight(s) == routing[s] # Idle
Completed(s) == routing[s] # Idle /\ routing[s].todo = {}

\* C1 (as claimed): when route_frame(room, f) has visited every sender of
\* the room, f is on the queue of every peer joined to the room other than
\* f.sender, and on no other queue.
C1_RouteReachesEveryOtherPeer ==
    \A s \in Peers : Completed(s) =>
        \A r \in RoomIds, p \in Peers :
            OnQueue(r, p, routing[s].frame) <=>
                (r = routing[s].room /\ p \in participants[r] \ {s})

\* C1 (amended): f is never on the queue of the sender, of a peer that is
\* not joined to the room, or of a peer of another room; and when the call
\* has visited every sender of the room, f is on the queue of exactly the
\* joined peers other than f.sender whose queue was not full when
\* route_frame reached them.
C1_RouteReachesEveryOtherPeerWithRoom ==
    \A s \in Peers : InFlight(s) =>
        LET call == routing[s] IN
        /\ \A r \in RoomIds, p \in Peers :
              OnQueue(r, p, call.frame) =>
                  (r = call.room /\ p \in participants[r] \ {call.frame.sender})
        /\ Completed(s) =>
              \A p \in participants[call.room] \ {call.frame.sender} :
                  OnQueue(call.room, p, call.frame) <=> p \notin call.full

\* C1 witness: a finished call of a joined sender that reached one peer and
\* found the queue of another one full.
C1_Witness ==
    \E s \in Peers : /\ Completed(s)
                     /\ s \in participants[routing[s].room]
                     /\ routing[s].full # {}
                     /\ \E p \in Peers : OnQueue(routing[s].room, p, routing[s].frame)

\* One step of the call of sender s: the next iteration or the return.
RouteStep(s) == (\E p \in Peers : RouteVisit(s, p)) \/ RouteReturn(s)

\* The iteration of the call of s that handles peer p.
Visits(s, p) == InFlight(s) /\ p \in routing[s].todo /\ routing'[s] # Idle
                /\ p \notin routing'[s].todo

\* C6: a route_frame call in flight can always take its next step (it never
\* waits for a receiver); the iteration that finds the queue of a peer full
\* changes no queue, and the iteration that finds room in the queue of a
\* peer other than the sender appends the frame to that queue and changes
\* no other queue.
C6_FullQueueDropsWithoutBlocking ==
    /\ [](\A s \in Peers : InFlight(s) => ENABLED RouteStep(s))
    /\ [][\A s \in Peers, p \in Peers : Visits(s, p) =>
            LET call == routing[s]
                q == inbox[call.room][p]
            IN  /\ Len(q) = QueueCap => inbox' = inbox
                /\ (Len(q) < QueueCap /\ p # call.frame.sender) =>
                      inbox' = [inbox EXCEPT ![call.room][p] = Append(q, call.frame)]
         ]_vars

\* C6 witness: a call has just dropped the frame for a peer whose queue is
\* full and still has other peers to visit.
C6_Witness ==
    \E s \in Peers : /\ InFlight(s)
                     /\ routing[s].todo # {}
                     /\ \E p \in routing[s].full :
                           Len(inbox[routing[s].room][p]) = QueueCap

\* C7: under join_room and leave_room calls alone, every listed room has a
\* participant; a join leaves the room listed with the peer in it, and a
\* join on an absent room id creates it with that peer alone; a leave
\* removes the peer, and a leave that removed the last participant deleted
\* the room.
C7_RoomsNeverEmpty ==
    /\ \A r \in ListRooms : participants[r] # {}
    /\ lastOp.op = "join" =>
          /\ lastOp.room \in ListRooms
          /\ lastOp.peer \in participants[lastOp.room]
          /\ lastOp.absent => participants[lastOp.room] = {lastOp.peer}
    /\ lastOp.op = "leave" =>
          /\ lastOp.peer \notin participants[lastOp.room]
          /\ lastOp.last => lastOp.room \notin ListRooms

\* C7 witness: the last participant of a room has left and the room is gone,
\* while another room is still listed.
C7_Witness ==
    /\ lastOp.op = "leave" /\ lastOp.last
    /\ lastOp.room \notin ListRooms
    /\ ListRooms # {}

\* C8: the frames of one sender that a receiver has dequeued are in the
\* order of the sender's route_frame calls (the payload numbers the calls).
C8_PerSenderOrder ==
    \A r \in RoomIds, p \in Peers :
        \A i, j \in DOMAIN received[r][p] :
            (i < j /\ received[r][p][i].sender = received[r][p][j].sender)
                => received[r][p][i].payload < received[r][p][j].payload

\* C8 witness: a receiver has dequeued two frames of the same sender.
C8_Witness ==
    \E r \in RoomIds, p \in Peers :
        \E i, j \in DOMAIN received[r][p] :
            i < j /\ received[r][p][i].sender = received[r][p][j].sender

=============================================================================
